---- MODULE Spec2Model ----
(***************************************************************************)
(* Pia-Pia voice-session engine.                                           *)
(*                                                                         *)
(* Spec      : the record-only orchestrator, piapia/bot/piapia_bot.py      *)
(*             (sessions, sinks, max-duration timers, stop paths,          *)
(*             shutdown); the sleeps of a timer task end at any moment     *)
(* SpecTimer : the same handlers of one guild against a clock in minutes;  *)
(*             a sleeping timer task wakes exactly when its delay is over  *)
(* SpecOld   : the record-and-transcribe orchestrator, src/bot/piapia_bot.py*)
(* SpecSink  : its sink, src/sinks/discord_sink.py (queue, monitor thread) *)
(* SpecRec   : the record-only sink and its archiver,                      *)
(*             piapia/sinks/discord_sink.py and audio_archiver.py          *)
(* SpecBuffer : the monitor thread of the record-and-transcribe sink with  *)
(*             its AudioBuffer, Transcriber and noise filter, against a    *)
(*             clock in ticks                                              *)
(* SpecRoundTrip : AudioSessionInfo.to_dict / from_dict of                 *)
(*             piapia/domain/sessions.py on bounded sessions               *)
(* SpecIds   : make_session_id and _create_session_for_guild against a    *)
(*             clock finer than one second                                 *)
(* SpecPlayers : AudioSessionInfo.add_or_update_player on one session      *)
(* SpecBufferLive : SpecBuffer with the monitor thread scheduled fairly     *)
(* SpecSinkLive : SpecSink with the monitor thread scheduled fairly and a   *)
(*             cleanup() that runs on once entered                         *)
(* SpecCleanup : DiscordSink.cleanup of both generations, step by step,     *)
(*             with the errors its steps can meet                          *)
(* SpecWrite : DiscordSink.write of both generations on frames that may be *)
(*             empty, against a clock that may step back, with what the    *)
(*             frame causes next (archive, buffer, extras)                 *)
(* SpecSession : one record-only session from /record to the end of its    *)
(*             stop, with its identity snapshot and session_meta.json      *)
(***************************************************************************)
EXTENDS Integers, Sequences, FiniteSets, TLC

\* ------------------------------------------------------------------ bounds
NumGuilds == 2
MaxSessions == 2
MaxClock == 7
MaxMinutes == 6
NumUsers == 2
MaxFrames == 3
MaxCleanups == 2
MaxTicks == 4
\* settings.silence_threshold and the choices of settings.min_audio_duration, in
\* ticks and in frames
SilenceTicks == 2
MaxMinDuration == 2
\* the instants of the clock of session creation, and how many make one second
\* the exceptions that reach the handler of the monitor loop in one run
MaxLoopErrors == 1
\* the write() calls followed on one sink when the clock may step back
MaxWrites == 2
MaxInstant == 5
SubSeconds == 2

\* ------------------------------------------------- program constants
\* warning_delay = 5  (minutes before the limit at which the warning is sent)
warning_delay == 5

Guilds == 1..NumGuilds
SessionIds == 1..MaxSessions
Users == 1..NumUsers
\* Python's None where the model holds an integer
None == 0 - 1

\* the settings the orchestrator is explored with: no limit, and the shortest
\* limit whose timer has both phases
DurationChoices == {0, warning_delay + 1}

\* ------------------------------------------------------------------ state
VARIABLES
    max_session_duration_minutes, \* settings.max_session_duration_minutes
    bot,                \* the PiaPiaBot object and the objects its handlers mutate
    conn,               \* guild -> a VoiceClient is available (helper.vc / guild.voice_client)
    next_id,            \* next AudioSessionInfo / DiscordSink to allocate
    guild_of,           \* session -> guild_id (0: not created yet)
    start_result,       \* what the last start_record_session did
    cb_sink,            \* callback of sink k -> sink_obj it popped
    sh_pc, sh_todo, sh_cur,   \* PiaPiaBot.close(): position, items left, current item
    now,                \* the clock, in minutes
    started_at,         \* session -> minute its timer task was created
    warn_at,            \* session -> minute its warning was sent (None: not sent)
    stop_at,            \* session -> minute its automatic stop ran (None: did not)
    stop_requested,     \* session -> /stop was issued while it was registered
    old,                \* the record-and-transcribe PiaPiaBot and its VoiceClients
    sk,                 \* a record-and-transcribe DiscordSink, its thread and archiver
    rec,                \* a record-only DiscordSink, its archiver and the session folder
    e2e,                \* one record-only session, its meta file and audio files
    buf,                \* a record-and-transcribe sink: queue, AudioBuffer, thread, events
    rt,                 \* a session, the record made of it and the session read back
    sids,               \* the sessions created so far, with the instant of each
    pl,                 \* the players of one session and the last add_or_update_player
    cu,                 \* one sink of either generation under cleanup(), and its errors
    wr                  \* one sink of either generation, the frames written to it

botVars == <<max_session_duration_minutes, bot, conn, next_id, guild_of,
             start_result, cb_sink, sh_pc, sh_todo, sh_cur>>
clockVars == <<now, started_at, warn_at, stop_at, stop_requested>>
moreVars == <<sids, pl, cu, wr>>
\* everything but one of the variables of moreVars
notSids == <<botVars, clockVars, old, sk, rec, e2e, buf, rt, pl, cu, wr>>
notPl == <<botVars, clockVars, old, sk, rec, e2e, buf, rt, sids, cu, wr>>
notCu == <<botVars, clockVars, old, sk, rec, e2e, buf, rt, sids, pl, wr>>
notWr == <<botVars, clockVars, old, sk, rec, e2e, buf, rt, sids, pl, cu>>
restVars == <<e2e, buf, rt, moreVars>>
otherVars == <<old, sk, rec, restVars>>

vars == <<botVars, clockVars, otherVars>>

NoMeta == [exists |-> FALSE, ended_at |-> None, extra |-> FALSE]

InitBot ==
    /\ bot = [ current_sink_by_guild    |-> [g \in Guilds |-> 0],
               current_session_by_guild |-> [g \in Guilds |-> 0],
               session_timers           |-> [g \in Guilds |-> 0],
               task       |-> [s \in SessionIds |-> "none"],
               ended_at   |-> [s \in SessionIds |-> None],
               finalized  |-> [s \in SessionIds |-> 0],
               meta_file  |-> [s \in SessionIds |-> NoMeta],
               cleanups   |-> [s \in SessionIds |-> 0],
               recording  |-> [g \in Guilds |-> 0],
               cb         |-> [s \in SessionIds |-> "none"] ]
    /\ conn = [g \in Guilds |-> FALSE]
    /\ next_id = 1
    /\ guild_of = [s \in SessionIds |-> 0]
    /\ start_result = "none"
    /\ cb_sink = [s \in SessionIds |-> 0]
    /\ sh_pc = "run"
    /\ sh_todo = {}
    /\ sh_cur = <<0, 0>>

InitClock ==
    /\ now = 0
    /\ started_at = [s \in SessionIds |-> None]
    /\ warn_at = [s \in SessionIds |-> None]
    /\ stop_at = [s \in SessionIds |-> None]
    /\ stop_requested = [s \in SessionIds |-> FALSE]

\* PiaPiaBot.__init__ of the record-and-transcribe generation
InitOld ==
    old = [ guild_to_helper    |-> [g \in Guilds |-> FALSE],
            guild_sinks        |-> [g \in Guilds |-> 0],
            guild_is_recording |-> [g \in Guilds |-> FALSE],
            recording          |-> [g \in Guilds |-> 0],
            sink_guild         |-> [k \in SessionIds |-> 0],
            callback           |-> [k \in SessionIds |-> FALSE],
            cleanups           |-> [k \in SessionIds |-> 0],
            next_sink          |-> 1,
            last               |-> "none" ]

\* DiscordSink.__init__ of the record-and-transcribe generation: an empty
\* queue, running, the monitor thread started
InitSink ==
    sk = [ voice_queue |-> <<>>,
           running     |-> TRUE,
           thread      |-> "check",
           item        |-> <<>>,
           accepted    |-> <<>>,
           archive     |-> [u \in Users |-> <<>>],
           files       |-> {},
           cleanup     |-> "none",
           errors      |-> 0 ]

\* AudioArchiver.__init__ and DiscordSink.__init__ of the record-only
\* generation, for a target format and with pydub importable or not
InitRec(fmt, pydub) ==
    rec = [ audio_format |-> fmt,
            pydub        |-> pydub,
            files        |-> {},
            disk         |-> {},
            lock         |-> "free",
            write        |-> "idle",
            write_user   |-> 0,
            writes       |-> 0,
            cleanup      |-> "idle",
            cleanups     |-> 0,
            todo         |-> {},
            outcome      |-> [u \in Users |-> "none"],
            appended     |-> {},
            closes       |-> 0,
            truncated    |-> {} ]

\* the identity maps of a guild: per user, not listed or one of two names
PlayerMaps == [Users -> {"absent", "a", "b"}]

\* the "players" of a session_meta.json that does not hold the key
NoPlayers == [u \in Users |-> "missing"]

\* no session_meta.json in the session folder
NoMetaFile == [exists |-> FALSE, ended_at |-> None, players |-> NoPlayers,
               extra |-> FALSE]

\* the bot before /record: the identity map pm loaded, no session
InitE2E(pm) ==
    e2e = [ player_map |-> pm,
            pc         |-> "idle",
            snapshot   |-> pm,
            players    |-> NoPlayers,
            ended_at   |-> None,
            meta       |-> NoMetaFile,
            audio      |-> {},
            handles    |-> {},
            received   |-> FALSE,
            frames     |-> 0 ]

\* AudioBuffer(max_speakers=-1, data_limit=200, ...) of _start_discord_sink_for_guild
max_speakers == 0 - 1
data_limit == 200

\* a user AudioBuffer.speakers does not hold
NoSpeaker == [tracked |-> FALSE, start_time |-> 0, last_audio_time |-> 0]

\* no transcribe_wav call yet
NoCall == [called |-> FALSE, duration |-> 0, outcome |-> "", text |-> "",
           calls |-> 0, raised |-> FALSE]

\* DiscordSink.__init__ of the record-and-transcribe generation with its
\* AudioBuffer and Transcriber: nothing queued, nobody tracked, the thread at
\* the top of its loop
InitBuf(enabled, mind) ==
    buf = [ now          |-> 0,
            voice_queue  |-> <<>>,
            writes       |-> 0,
            speakers     |-> [u \in Users |-> NoSpeaker],
            buffers      |-> [u \in Users |-> <<>>],
            keys         |-> <<>>,
            pc           |-> "get",
            todo         |-> <<>>,
            cur          |-> <<>>,
            log          |-> <<>>,
            output_queue |-> <<>>,
            put_by       |-> "none",
            flushes      |-> <<>>,
            last_tr      |-> NoCall,
            enable_subtitle_noise_filter |-> enabled,
            min_duration |-> mind ]

\* the PlayerSessionInfo values of user u: player and first_spoke_at given or None
PlayerInfos(u) ==
    [user_id : {u}, player : {"None", "alice"}, character : {"Pia"},
     first_offset_seconds : {"None"}, first_spoke_at : {"None", "t1"}]

\* the players maps: user_id -> PlayerSessionInfo, for any set of users
PlayersMaps ==
    UNION {{f \in [S -> UNION {PlayerInfos(u) : u \in S}] :
                \A u \in S : f[u].user_id = u} : S \in SUBSET Users}

\* the AudioSessionInfo objects looked at; extra is a set of <<key, value>>
Sessions ==
    [session_id : {"2025-12-09_20-30-00_g1"}, guild_id : Guilds,
     mode : {"record_only"}, label : {"None", "campaign"},
     players : PlayersMaps, extra : {{}, {<<"audio_start_ts", "12.5">>}}]

\* no record / no session yet
NoRecord == [made |-> FALSE]

\* a session object before to_dict is called on it
InitRt(s) ==
    rt = [pc |-> "session", session |-> s, record |-> NoRecord, back |-> NoRecord]

\* the bot at instant 0: no session created yet, no guild with a sink
InitIds ==
    sids = [now |-> 0, created |-> <<>>, active |-> [g \in Guilds |-> FALSE]]

\* a player the session does not hold
NoPlayer == [present |-> FALSE, player |-> "None", character |-> "None"]

\* AudioSessionInfo.players of a new session: empty; no call yet
InitPl ==
    pl = [players |-> [u \in Users |-> NoPlayer],
          last |-> [user_id |-> 0, player |-> "None", character |-> "None"]]

\* DiscordSink.__init__ of generation gen ("new": piapia/sinks, "old":
\* src/sinks, whose constructor starts the monitor thread), with an archiver
\* or with audio_archiver None
InitCu(gen, archiver) ==
    cu = [gen          |-> gen,
          archiver     |-> archiver,
          files        |-> {},
          running      |-> TRUE,
          alive        |-> (gen = "old"),
          pc           |-> "idle",
          errors       |-> {},
          close_called |-> FALSE,
          calls        |-> 0]

\* no extras merged yet
NoExtras == [merged |-> FALSE, audio_start_ts |-> None,
             user_first_offset_seconds |-> [u \in Users |-> None]]

\* a user AudioBuffer.speakers does not hold, last_audio_time alone followed
Untracked == [tracked |-> FALSE, last_audio_time |-> 0]

\* DiscordSink.__init__ of generation gen: start_ts None, no offset, nothing
\* queued, no speaker in the AudioBuffer, no file
InitWr(gen, archiver) ==
    wr = [gen          |-> gen,
          archiver     |-> archiver,
          now          |-> 0,
          start_ts     |-> None,
          user_first_offset_seconds |-> [u \in Users |-> None],
          files        |-> {},
          archived     |-> [u \in Users |-> 0],
          voice_queue  |-> <<>>,
          speakers     |-> [u \in Users |-> Untracked],
          extras       |-> NoExtras,
          writes       |-> 0,
          last         |-> [user_id |-> 0, empty |-> FALSE],
          heard        |-> {},
          first        |-> 0]

InitMore == InitIds /\ InitPl /\ InitCu("new", TRUE) /\ InitWr("new", TRUE)

\* the parts a specification leaves alone
InitRest ==
    /\ InitE2E([u \in Users |-> "absent"])
    /\ InitBuf(TRUE, 1)
    /\ InitRt(CHOOSE s \in Sessions : s.players = <<>> /\ s.extra = {})
    /\ InitMore

Init ==
    /\ max_session_duration_minutes \in DurationChoices
    /\ InitBot
    /\ InitClock
    /\ InitOld /\ InitSink /\ InitRec("wav", TRUE) /\ InitRest

InitTimer ==
    /\ max_session_duration_minutes \in 0..MaxMinutes
    /\ InitBot
    /\ InitClock
    /\ InitOld /\ InitSink /\ InitRec("wav", TRUE) /\ InitRest

Min(a, b) == IF a < b THEN a ELSE b

\* ---------------------------------------------------------------- helpers
\* (variant) one timer slot for the whole bot: every guild's task is cancelled
CancelEveryTimer(b, g) ==
    [b EXCEPT !.session_timers = [h \in Guilds |-> 0],
              !.task = [s \in SessionIds |-> "none"]]

\* PiaPiaBot._cancel_session_timer: pop the guild's task, cancel it if not done.
\* task[s] is the position of the timer task of session s: asleep before the
\* warning ("wait_warn"), asleep before the stop ("wait_stop"), or "none":
\* not created, cancelled or finished
CancelSessionTimer(b, g) ==
    LET t == b.session_timers[g] IN
    [b EXCEPT !.session_timers[g] = 0,
              !.task = IF t # 0 THEN [b.task EXCEPT ![t] = "none"] ELSE b.task]

\* datetime.now(timezone.utc) as read by a finalize of session s: a later call
\* reads a later time, so the time read by the n-th call is written n
FinalizeTime(b, s) == b.finalized[s] + 1

\* (variant) finalize without the "is None" test
EndedAtOverwritten(b, s, t) == t

\* "if session.ended_at is None: session.ended_at = datetime.now(timezone.utc)"
EndedAtAfterFinalize(b, s, t) ==
    IF b.ended_at[s] = None THEN t ELSE b.ended_at[s]

\* PiaPiaBot._finalize_session_meta_for_guild. save_json rewrites the whole file
\* from the session object, whose "extra" is empty.
FinalizeSessionMeta(b, g) ==
    LET s == b.current_session_by_guild[g] IN
    IF s = 0 THEN b
    ELSE LET e == EndedAtAfterFinalize(b, s, FinalizeTime(b, s)) IN
         [b EXCEPT !.ended_at[s] = e,
                   !.finalized[s] = Min(@ + 1, 2),
                   !.meta_file[s] = [exists |-> TRUE, ended_at |-> e, extra |-> FALSE]]

\* DiscordSink.cleanup of sink k: merge the extras into session_meta.json (read,
\* set "extra", write back), then close the archiver.
SinkCleanup(b, k) ==
    [b EXCEPT !.cleanups[k] = Min(@ + 1, 2),
              !.meta_file[k] = [exists |-> TRUE, ended_at |-> @.ended_at, extra |-> TRUE]]

\* PiaPiaBot._close_and_clean_sink_for_guild: cancel timer, finalize, sink.cleanup
\* (an exception of either is caught), pop sink and session
CloseAndCleanSink(b, g) ==
    LET b0 == CancelSessionTimer(b, g)
        b1 == FinalizeSessionMeta(b0, g)
        k  == b1.current_sink_by_guild[g]
        b2 == IF k # 0 THEN SinkCleanup(b1, k) ELSE b1
    IN [b2 EXCEPT !.current_sink_by_guild[g] = 0,
                  !.current_session_by_guild[g] = 0]

\* vc.stop_recording(): raises when the VoiceClient is not recording; otherwise the
\* library stops and later invokes the stop callback registered with that sink
StopRecording(b, g) ==
    [b EXCEPT !.recording[g] = 0,
              !.cb[b.recording[g]] = "pending"]

\* PiaPiaBot.stop_current_session
StopCurrentSession(b, g, hasVc) ==
    IF hasVc /\ b.recording[g] # 0
    THEN StopRecording(b, g)
    ELSE CloseAndCleanSink(b, g)

\* (variant) the guard of line 478 left out
NeverActive(b, g) == FALSE

\* line 478: "if self.current_sink_by_guild.get(guild_id) is not None"
AlreadyActive(b, g) == b.current_sink_by_guild[g] # 0

\* PiaPiaBot._start_session_timer (called with the new session registered)
StartSessionTimer(b, g, s) ==
    IF max_session_duration_minutes <= 0 THEN b
    ELSE LET b0 == CancelSessionTimer(b, g) IN
         [b0 EXCEPT !.session_timers[g] = s,
                    !.task[s] = IF (max_session_duration_minutes - warning_delay) * 60 > 0
                                THEN "wait_warn" ELSE "wait_stop"]

\* PiaPiaBot._start_sink_for_session after the VoiceClient was found and
\* vc.start_recording(sink, callback, ctx) returned
RegisterSink(b, g, s) ==
    StartSessionTimer(
        [b EXCEPT !.recording[g] = s,
                  !.current_sink_by_guild[g] = s,
                  !.current_session_by_guild[g] = s],
        g, s)

Running == sh_pc # "done"


\* ------------------------------------------- handlers of the orchestrator
\* (each leaves the clock and its records to the specification that runs it)

\* /connect (cogs/audio_cog.py): a VoiceClient is stored in the guild's helper
Connect(g) ==
    /\ Running
    /\ ~conn[g]
    /\ conn' = [conn EXCEPT ![g] = TRUE]
    /\ UNCHANGED <<max_session_duration_minutes, bot, next_id, guild_of,
                   start_result, cb_sink, sh_pc, sh_todo, sh_cur, otherVars>>

\* PiaPiaBot.start_record_session
StartSession(g) ==
    /\ Running
    /\ IF AlreadyActive(bot, g)
       THEN /\ start_result' = "already_active"
            /\ UNCHANGED <<bot, next_id, guild_of>>
       ELSE /\ next_id <= MaxSessions
            /\ next_id' = next_id + 1
            /\ guild_of' = [guild_of EXCEPT ![next_id] = g]
            /\ IF ~conn[g] \/ bot.recording[g] # 0
               THEN \* RuntimeError (no VoiceClient) or vc.start_recording raised
                    /\ start_result' = "error"
                    /\ bot' = bot
               ELSE /\ start_result' = "started"
                    /\ bot' = RegisterSink(bot, g, next_id)
    /\ UNCHANGED <<max_session_duration_minutes, conn, cb_sink,
                   sh_pc, sh_todo, sh_cur, otherVars>>

\* PiaPiaBot.stop_current_session (the /stop command)
StopSession(g) ==
    /\ Running
    /\ bot' = StopCurrentSession(bot, g, conn[g])
    /\ UNCHANGED <<max_session_duration_minutes, conn, next_id, guild_of,
                   start_result, cb_sink, sh_pc, sh_todo, sh_cur, otherVars>>

\* on_stop_record_callback, up to its first await: cancel the timer, pop the
\* guild's sink (whichever is registered now), hand finalize to a thread
CbBegin(k) ==
    /\ Running
    /\ bot.cb[k] = "pending"
    /\ LET g  == guild_of[k]
           b0 == CancelSessionTimer(bot, g)
       IN /\ cb_sink' = [cb_sink EXCEPT ![k] = b0.current_sink_by_guild[g]]
          /\ bot' = [b0 EXCEPT !.current_sink_by_guild[g] = 0,
                               !.cb[k] = "finalize"]
    /\ UNCHANGED <<max_session_duration_minutes, conn, next_id, guild_of,
                   start_result, sh_pc, sh_todo, sh_cur, otherVars>>

\* "await asyncio.to_thread(self._finalize_session_meta_for_guild, gid)"
CbFinalize(k) ==
    /\ Running
    /\ bot.cb[k] = "finalize"
    /\ bot' = [FinalizeSessionMeta(bot, guild_of[k])
                  EXCEPT !.cb[k] = IF cb_sink[k] # 0 THEN "cleanup" ELSE "pop"]
    /\ UNCHANGED <<max_session_duration_minutes, conn, next_id, guild_of,
                   start_result, cb_sink, sh_pc, sh_todo, sh_cur, otherVars>>

\* "if sink_obj: await asyncio.to_thread(sink_obj.cleanup)"; the call is not
\* wrapped: an exception of cleanup() ends the callback here
CbCleanup(k) ==
    /\ Running
    /\ bot.cb[k] = "cleanup"
    /\ \E raises \in BOOLEAN :
         bot' = [SinkCleanup(bot, cb_sink[k])
                   EXCEPT !.cb[k] = IF raises THEN "none" ELSE "pop"]
    /\ UNCHANGED <<max_session_duration_minutes, conn, next_id, guild_of,
                   start_result, cb_sink, sh_pc, sh_todo, sh_cur, otherVars>>

\* "self.current_session_by_guild.pop(gid, None)"
CbPop(k) ==
    /\ Running
    /\ bot.cb[k] = "pop"
    /\ bot' = [bot EXCEPT !.current_session_by_guild[guild_of[k]] = 0,
                          !.cb[k] = "none"]
    /\ UNCHANGED <<max_session_duration_minutes, conn, next_id, guild_of,
                   start_result, cb_sink, sh_pc, sh_todo, sh_cur, otherVars>>

\* what get_channel / channel.send do for a timer task: the message is sent,
\* there is no channel, or send raises
ChannelOutcomes == {"ok", "none", "raises"}

\* _session_timeout_handler, the first sleep is over: the warning. Only
\* CancelledError is caught, so a send that raises ends the task
TimerWarn(s, chan) ==
    /\ Running
    /\ bot.task[s] = "wait_warn"
    /\ bot' = [bot EXCEPT !.task[s] = IF chan = "raises" THEN "none" ELSE "wait_stop"]
    /\ UNCHANGED <<max_session_duration_minutes, conn, next_id, guild_of,
                   start_result, cb_sink, sh_pc, sh_todo, sh_cur, otherVars>>

\* the automatic stop of _session_timeout_handler (lines 310-324): the helper's
\* VoiceClient is asked to stop; without one, or when that raises, the direct path
AutoStop(b, g, hasVc) ==
    IF hasVc /\ b.recording[g] # 0
    THEN StopRecording(b, g)
    ELSE CloseAndCleanSink(b, g)

\* _session_timeout_handler, the last sleep is over: announce and stop
TimerStop(s, chan) ==
    /\ Running
    /\ bot.task[s] = "wait_stop"
    /\ bot' = IF chan = "raises"
              THEN [bot EXCEPT !.task[s] = "none"]
              ELSE [AutoStop(bot, guild_of[s], conn[guild_of[s]])
                      EXCEPT !.task[s] = "none"]
    /\ UNCHANGED <<max_session_duration_minutes, conn, next_id, guild_of,
                   start_result, cb_sink, sh_pc, sh_todo, sh_cur, otherVars>>

\* on_voice_state_update: Pia-Pia left the guild's voice channel. The helper is
\* dropped and the guild cleaned. fires: the lost VoiceClient, if it was
\* recording, still delivers its stop callback
VoiceDisconnect(g) ==
    /\ Running
    /\ conn[g]
    /\ conn' = [conn EXCEPT ![g] = FALSE]
    /\ \E fires \in BOOLEAN :
         LET b0 == IF bot.recording[g] = 0 THEN bot
                   ELSE IF fires THEN StopRecording(bot, g)
                   ELSE [bot EXCEPT !.recording[g] = 0]
         IN bot' = CloseAndCleanSink(b0, g)
    /\ UNCHANGED <<max_session_duration_minutes, next_id, guild_of,
                   start_result, cb_sink, sh_pc, sh_todo, sh_cur, otherVars>>

\* PiaPiaBot.close(): the items of copy(current_sink_by_guild)
SinkItems(b) ==
    {<<g, b.current_sink_by_guild[g]>> : g \in {h \in Guilds : b.current_sink_by_guild[h] # 0}}

\* "self.current_sink_by_guild.clear(); self.current_session_by_guild.clear()"
ClearMaps(b) ==
    [b EXCEPT !.current_sink_by_guild = [g \in Guilds |-> 0],
              !.current_session_by_guild = [g \in Guilds |-> 0]]

\* close(), one pass of its loop up to "await asyncio.to_thread(sink.cleanup)",
\* or past the loop when no item is left
ShStep(todo) ==
    IF todo = {}
    THEN /\ bot' = ClearMaps(bot)
         /\ sh_pc' = "done"
         /\ sh_todo' = {}
         /\ sh_cur' = <<0, 0>>
    ELSE \E item \in todo :
         /\ bot' = FinalizeSessionMeta(bot, item[1])
         /\ sh_pc' = "cleanup"
         /\ sh_todo' = todo \ {item}
         /\ sh_cur' = item

\* close() is called
ShBegin ==
    /\ sh_pc = "run"
    /\ ShStep(SinkItems(bot))
    /\ UNCHANGED <<max_session_duration_minutes, conn, next_id, guild_of,
                   start_result, cb_sink, otherVars>>

\* sink.cleanup() of the current item, in its thread (an exception is caught)
ShCleanup ==
    /\ sh_pc = "cleanup"
    /\ bot' = SinkCleanup(bot, sh_cur[2])
    /\ sh_pc' = "resume"
    /\ UNCHANGED <<max_session_duration_minutes, conn, next_id, guild_of,
                   start_result, cb_sink, sh_todo, sh_cur, otherVars>>

\* close() resumes after the thread: next item, or the two clear() calls
ShResume ==
    /\ sh_pc = "resume"
    /\ ShStep(sh_todo)
    /\ UNCHANGED <<max_session_duration_minutes, conn, next_id, guild_of,
                   start_result, cb_sink, otherVars>>

Next ==
    \/ \E g \in Guilds : Connect(g) /\ UNCHANGED clockVars
    \/ \E g \in Guilds : StartSession(g) /\ UNCHANGED clockVars
    \/ \E g \in Guilds : StopSession(g) /\ UNCHANGED clockVars
    \/ \E k \in SessionIds : CbBegin(k) /\ UNCHANGED clockVars
    \/ \E k \in SessionIds : CbFinalize(k) /\ UNCHANGED clockVars
    \/ \E k \in SessionIds : CbCleanup(k) /\ UNCHANGED clockVars
    \/ \E k \in SessionIds : CbPop(k) /\ UNCHANGED clockVars
    \/ \E s \in SessionIds, chan \in ChannelOutcomes : TimerWarn(s, chan) /\ UNCHANGED clockVars
    \/ \E s \in SessionIds, chan \in ChannelOutcomes : TimerStop(s, chan) /\ UNCHANGED clockVars
    \/ \E g \in Guilds : VoiceDisconnect(g) /\ UNCHANGED clockVars
    \/ ShBegin /\ UNCHANGED clockVars
    \/ ShCleanup /\ UNCHANGED clockVars
    \/ ShResume /\ UNCHANGED clockVars

Spec == Init /\ [][Next]_vars

\* ---------------------------------------------- the handlers against a clock
\* the guild whose commands are followed minute by minute
TimerGuild == CHOOSE g \in Guilds : TRUE

\* minute at which the timer task of session s sends its warning / stops:
\* "await asyncio.sleep(wait_before_warning)", "await asyncio.sleep(warning_delay * 60)",
\* "await asyncio.sleep(max_minutes * 60)"
WarnDue(s) == started_at[s] + (max_session_duration_minutes - warning_delay)
StopDue(s) == started_at[s] + max_session_duration_minutes

\* /record at minute now; started_at: the minute the new session was registered
\* and its timer task created
TimedStart ==
    /\ StartSession(TimerGuild)
    /\ started_at' = IF bot'.current_session_by_guild[TimerGuild] = next_id
                      THEN [started_at EXCEPT ![next_id] = now]
                      ELSE started_at
    /\ UNCHANGED <<now, warn_at, stop_at, stop_requested>>

\* /stop at minute now
TimedStop ==
    /\ StopSession(TimerGuild)
    /\ stop_requested' = IF bot.current_sink_by_guild[TimerGuild] # 0
                          THEN [stop_requested EXCEPT ![bot.current_sink_by_guild[TimerGuild]] = TRUE]
                          ELSE stop_requested
    /\ UNCHANGED <<now, started_at, warn_at, stop_at>>

\* the first sleep of the timer task of s is over
TimedWarn(s) ==
    /\ now = WarnDue(s)
    /\ \E chan \in ChannelOutcomes :
         /\ TimerWarn(s, chan)
         /\ warn_at' = IF chan = "ok" THEN [warn_at EXCEPT ![s] = now] ELSE warn_at
    /\ UNCHANGED <<now, started_at, stop_at, stop_requested>>

\* the last sleep of the timer task of s is over
TimedAutoStop(s) ==
    /\ now = StopDue(s)
    /\ \E chan \in ChannelOutcomes :
         /\ TimerStop(s, chan)
         /\ stop_at' = IF chan # "raises" THEN [stop_at EXCEPT ![s] = now] ELSE stop_at
    /\ UNCHANGED <<now, started_at, warn_at, stop_requested>>

\* a minute passes, unless a sleeping timer task is due to wake in this one
Tick ==
    /\ Running
    /\ now < MaxClock
    /\ \A s \in SessionIds :
         /\ bot.task[s] = "wait_warn" => now < WarnDue(s)
         /\ bot.task[s] = "wait_stop" => now < StopDue(s)
    /\ now' = now + 1
    /\ UNCHANGED <<botVars, started_at, warn_at, stop_at, stop_requested, otherVars>>

NextTimer ==
    \/ Connect(TimerGuild) /\ UNCHANGED clockVars
    \/ TimedStart
    \/ TimedStop
    \/ \E k \in SessionIds : CbBegin(k) /\ UNCHANGED clockVars
    \/ \E k \in SessionIds : CbFinalize(k) /\ UNCHANGED clockVars
    \/ \E k \in SessionIds : CbCleanup(k) /\ UNCHANGED clockVars
    \/ \E k \in SessionIds : CbPop(k) /\ UNCHANGED clockVars
    \/ \E s \in SessionIds : TimedWarn(s)
    \/ \E s \in SessionIds : TimedAutoStop(s)
    \/ Tick

SpecTimer == InitTimer /\ [][NextTimer]_vars

\* ------------------- the record-and-transcribe orchestrator (src/bot/piapia_bot.py)
\* old.guild_to_helper[g]: the guild has a helper holding a VoiceClient;
\* old.recording[g]: the sink that VoiceClient records into; old.sink_guild[k]:
\* the guild sink k was created for; old.callback[k]: the stop callback of sink k
\* is due; old.last: what the last start_recording found

\* /connect (src/bot/cogs/audio_cog.py): a helper with a VoiceClient is stored
OldConnect(g) ==
    /\ ~old.guild_to_helper[g]
    /\ old' = [old EXCEPT !.guild_to_helper[g] = TRUE]
    /\ UNCHANGED <<botVars, clockVars, sk, rec, restVars>>

\* PiaPiaBot._start_discord_sink_for_guild: it gives up with a plain return when a
\* sink exists ("sink_exists") or there is no helper / VoiceClient ("no_voice");
\* vc.start_recording raises when the VoiceClient already records ("raised");
\* otherwise the sink is created and stored ("started")
StartDiscordSinkOutcome(o, g) ==
    IF o.guild_sinks[g] # 0 THEN "sink_exists"
    ELSE IF ~o.guild_to_helper[g] THEN "no_voice"
    ELSE IF o.recording[g] # 0 THEN "raised"
    ELSE "started"

\* PiaPiaBot.start_recording: "self._start_discord_sink_for_guild(ctx);
\* self.guild_is_recording[ctx.guild_id] = True", an exception caught and logged
OldStartRecording(g) ==
    LET res == StartDiscordSinkOutcome(old, g)
        k   == old.next_sink
        o1  == IF res = "started"
               THEN [old EXCEPT !.recording[g] = k,
                                !.guild_sinks[g] = k,
                                !.sink_guild[k] = g,
                                !.next_sink = k + 1]
               ELSE old
    IN /\ res = "started" => k <= MaxSessions
       /\ old' = [o1 EXCEPT !.guild_is_recording[g] = IF res = "raised" THEN @ ELSE TRUE,
                            !.last = res]
       /\ UNCHANGED <<botVars, clockVars, sk, rec, restVars>>

\* PiaPiaBot.stop_recording: with a VoiceClient, the guild is marked not recording
\* and vc.stop_recording() is called (it raises when nothing is recorded)
OldStopRecording(g) ==
    /\ old.guild_to_helper[g]
    /\ old' = [old EXCEPT !.guild_is_recording[g] = FALSE,
                          !.recording[g] = 0,
                          !.callback = IF old.recording[g] # 0
                                       THEN [@ EXCEPT ![old.recording[g]] = TRUE]
                                       ELSE @]
    /\ UNCHANGED <<botVars, clockVars, sk, rec, restVars>>

\* PiaPiaBot._close_and_clean_sink_for_guild of the record-and-transcribe
\* generation: nothing without a sink; else sink.cleanup(), pop, not recording
OldCloseAndCleanSink(o, g) ==
    LET k == o.guild_sinks[g] IN
    IF k = 0 THEN o
    ELSE [o EXCEPT !.cleanups[k] = Min(@ + 1, 2),
                   !.guild_sinks[g] = 0,
                   !.guild_is_recording[g] = FALSE]

\* on_stop_record_callback of sink k: the guild of its ctx is cleaned
OldCallback(k) ==
    /\ old.callback[k]
    /\ old' = [OldCloseAndCleanSink(old, old.sink_guild[k]) EXCEPT !.callback[k] = FALSE]
    /\ UNCHANGED <<botVars, clockVars, sk, rec, restVars>>

\* /disconnect (src/bot/cogs/audio_cog.py): the VoiceClient disconnects (a
\* recording one stops and its callback becomes due), the helper is dropped, the
\* guild marked not recording
OldDisconnect(g) ==
    /\ old.guild_to_helper[g]
    /\ old' = [old EXCEPT !.guild_to_helper[g] = FALSE,
                          !.guild_is_recording[g] = FALSE,
                          !.recording[g] = 0,
                          !.callback = IF old.recording[g] # 0
                                       THEN [@ EXCEPT ![old.recording[g]] = TRUE]
                                       ELSE @]
    /\ UNCHANGED <<botVars, clockVars, sk, rec, restVars>>

\* PiaPiaBot.stop_and_cleanup: cleanup() of every stored sink, then the three
\* clear() calls
OldStopAndCleanup ==
    /\ old' = [old EXCEPT
                 !.cleanups = [k \in SessionIds |->
                                 IF \E g \in Guilds : old.guild_sinks[g] = k
                                 THEN Min(old.cleanups[k] + 1, 2) ELSE old.cleanups[k]],
                 !.guild_sinks = [g \in Guilds |-> 0],
                 !.guild_is_recording = [g \in Guilds |-> FALSE]]
    /\ UNCHANGED <<botVars, clockVars, sk, rec, restVars>>

\* InitBot and InitClock with no time limit: the other generation, left alone
IdleBot ==
    /\ max_session_duration_minutes = 0
    /\ InitBot
    /\ InitClock

InitOldSpec == IdleBot /\ InitOld /\ InitSink /\ InitRec("wav", TRUE) /\ InitRest

NextOld ==
    \/ \E g \in Guilds : OldConnect(g)
    \/ \E g \in Guilds : OldStartRecording(g)
    \/ \E g \in Guilds : OldStopRecording(g)
    \/ \E k \in SessionIds : OldCallback(k)
    \/ \E g \in Guilds : OldDisconnect(g)
    \/ OldStopAndCleanup

SpecOld == InitOldSpec /\ [][NextOld]_vars

\* --------------- the record-and-transcribe sink (src/sinks/discord_sink.py)
\* A frame is <<user, n>>, n its arrival number. sk.thread is the position of
\* _monitor_loop: "check" (the while test), "get" (voice_queue.get), "archive"
\* (a frame in hand), "writeframes" (inside audio_archiver.append, the handle
\* obtained), "speakers" (the silence / transcription pass), "exit".
\* sk.cleanup is the position of cleanup(): "none", "join" (running is False,
\* thread.join entered), "close" (inside audio_archiver.close(), the handles
\* being closed), "done". sk.errors (history): the exceptions caught by the
\* "except Exception" of the loop.

\* DiscordSink.write, while the VoiceClient records: timestamp and enqueue
SkWrite(u) ==
    /\ sk.cleanup = "none"
    /\ Len(sk.accepted) < MaxFrames
    /\ LET f == <<u, Len(sk.accepted) + 1>> IN
       sk' = [sk EXCEPT !.voice_queue = Append(@, f),
                        !.accepted = Append(@, f)]
    /\ UNCHANGED <<botVars, clockVars, old, rec, restVars>>

\* (variant) a loop that does not read the flag
WhileTrue(s) == TRUE

\* the test of "while self.running:"
WhileRunning(s) == s.running

\* "while self.running:": the next iteration, or the end of _monitor_loop
SkLoopTest ==
    /\ sk.thread = "check"
    /\ sk' = [sk EXCEPT !.thread = IF WhileRunning(sk) THEN "get" ELSE "exit"]
    /\ UNCHANGED <<botVars, clockVars, old, rec, restVars>>

\* "user_id, data, ts = self.voice_queue.get(timeout=0.1)" returns a frame
SkGet ==
    /\ sk.thread = "get"
    /\ sk.voice_queue # <<>>
    /\ sk' = [sk EXCEPT !.item = Head(sk.voice_queue),
                        !.voice_queue = Tail(@),
                        !.thread = "archive"]
    /\ UNCHANGED <<botVars, clockVars, old, rec, restVars>>

\* the get times out on an empty queue: "except Empty: pass"
SkGetEmpty ==
    /\ sk.thread = "get"
    /\ sk.voice_queue = <<>>
    /\ sk' = [sk EXCEPT !.thread = "speakers"]
    /\ UNCHANGED <<botVars, clockVars, old, rec, restVars>>

\* AudioArchiver._get_or_open_file of the record-and-transcribe generation: the
\* user's file is opened with wave.open(path, "wb") unless a handle is held,
\* which empties a file already on disk
OldGetOrOpenFile(s, f) ==
    [s EXCEPT !.files = @ \cup {f[1]},
              !.archive[f[1]] = IF f[1] \in s.files THEN @ ELSE <<>>]

\* "wf.writeframes(data)": the frame is written; on a handle that close() has
\* closed it raises, which the loop catches and logs
OldWriteFrames(s, f, lands) ==
    IF lands THEN [s EXCEPT !.archive[f[1]] = Append(@, f[2])] ELSE s

\* "self.audio_archiver.append(user_id, data)" is entered: the handle
SkArchive ==
    /\ sk.thread = "archive"
    /\ sk' = [OldGetOrOpenFile(sk, sk.item) EXCEPT !.thread = "writeframes"]
    /\ UNCHANGED <<botVars, clockVars, old, rec, restVars>>

\* (variant) the loop without its "except Exception": the exception ends the thread
AfterLoopErrorUncaught == "dead"

\* "except Exception as e: logger.error("Error in DiscordSink monitor loop")",
\* then the while test
AfterLoopError == "check"

\* writeframes, then "self.audio_buffer.add_audio". While close() is closing the
\* handles the write lands or raises; once close() has forgotten the handle it
\* raises, which "except Exception" around append catches. An exception of
\* player_map.get or add_audio (raises) reaches the handler of the loop
SkWriteFrames(lands, raises) ==
    /\ sk.thread = "writeframes"
    /\ lands = IF sk.cleanup = "close" THEN lands ELSE (sk.item[1] \in sk.files)
    /\ raises => sk.errors < MaxLoopErrors
    /\ sk' = [OldWriteFrames(sk, sk.item, lands)
                EXCEPT !.item = <<>>,
                       !.thread = IF raises THEN AfterLoopError ELSE "speakers",
                       !.errors = IF raises THEN @ + 1 ELSE @]
    /\ UNCHANGED <<botVars, clockVars, old, rec, restVars>>

\* the pass over audio_buffer.speakers (is_speaker_done, flush, transcribe,
\* log); an exception of flush_speaker, of the event or of _log_transcription
\* (raises) ends the pass in the handler of the loop
SkSpeakers(raises) ==
    /\ sk.thread = "speakers"
    /\ raises => sk.errors < MaxLoopErrors
    /\ sk' = [sk EXCEPT !.thread = IF raises THEN AfterLoopError ELSE "check",
                        !.errors = IF raises THEN @ + 1 ELSE @]
    /\ UNCHANGED <<botVars, clockVars, old, rec, restVars>>

\* DiscordSink.cleanup: "self.running = False", then the join is entered
SkCleanupBegin ==
    /\ sk.cleanup = "none"
    /\ sk' = [sk EXCEPT !.running = FALSE, !.cleanup = "join"]
    /\ UNCHANGED <<botVars, clockVars, old, rec, restVars>>

\* "self.thread.join(timeout=1.0)" returns, because the thread has ended or the
\* second is over; then audio_archiver.close() is entered: "for wf in
\* self._files.values(): wf.close()"
SkCleanupClose ==
    /\ sk.cleanup = "join"
    /\ sk' = [sk EXCEPT !.cleanup = "close"]
    /\ UNCHANGED <<botVars, clockVars, old, rec, restVars>>

\* "self._files.clear()": the handles are forgotten; close() returns, then
\* super().cleanup()
SkCleanupEnd ==
    /\ sk.cleanup = "close"
    /\ sk' = [sk EXCEPT !.files = {}, !.cleanup = "done"]
    /\ UNCHANGED <<botVars, clockVars, old, rec, restVars>>

InitSinkSpec == IdleBot /\ InitOld /\ InitSink /\ InitRec("wav", TRUE) /\ InitRest

NextSink ==
    \/ \E u \in Users : SkWrite(u)
    \/ SkLoopTest
    \/ SkGet
    \/ SkGetEmpty
    \/ SkArchive
    \/ \E lands, raises \in BOOLEAN : SkWriteFrames(lands, raises)
    \/ \E raises \in BOOLEAN : SkSpeakers(raises)
    \/ SkCleanupBegin
    \/ SkCleanupClose
    \/ SkCleanupEnd

SpecSink == InitSinkSpec /\ [][NextSink]_vars

\* the monitor thread runs and every call it makes returns; a cleanup() that
\* was entered runs on: the join returns after a second at the latest
SinkFairness ==
    /\ WF_vars(SkLoopTest)
    /\ WF_vars(SkGet)
    /\ WF_vars(SkGetEmpty)
    /\ WF_vars(SkArchive)
    /\ WF_vars(\E lands, raises \in BOOLEAN : SkWriteFrames(lands, raises))
    /\ WF_vars(\E raises \in BOOLEAN : SkSpeakers(raises))
    /\ WF_vars(SkCleanupClose)
    /\ WF_vars(SkCleanupEnd)

SpecSinkLive == SpecSink /\ SinkFairness

\* ------- the record-only sink and its archiver (piapia/sinks/discord_sink.py,
\* piapia/sinks/audio_archiver.py)
\* rec.disk: the files of the session folder, <<user, extension>>; rec.files: the
\* users with an open handle (_files); rec.lock: who holds _archiver_lock;
\* rec.write / rec.cleanup: where the writing thread and the cleaning thread are;
\* rec.appended (history): the users for whom append() has written frames;
\* rec.closes (history): the calls of close() since the last append, 2 for more;
\* rec.truncated (history): the users whose WAV, written and closed, was opened
\* again with mode "wb", which empties it

AudioFormats == {"wav", "flac"}

\* what converting one WAV can do: succeed, or raise in AudioSegment.from_wav,
\* in export (before or after the target file appeared), or in os.remove
ConversionResults == {"ok", "from_wav", "export", "export_partial", "remove"}

\* DiscordSink.write up to "with self._archiver_lock": a non-empty frame of user u
RecWriteBegin(u) ==
    /\ rec.write = "idle"
    /\ rec.writes < MaxFrames
    /\ rec' = [rec EXCEPT !.write = "lock", !.write_user = u]
    /\ UNCHANGED <<botVars, clockVars, old, sk, restVars>>

\* the writing thread obtains _archiver_lock
RecWriteLock ==
    /\ rec.write = "lock"
    /\ rec.lock = "free"
    /\ rec' = [rec EXCEPT !.lock = "write", !.write = "append"]
    /\ UNCHANGED <<botVars, clockVars, old, sk, restVars>>

\* AudioArchiver.append: _get_or_open_file creates user_<id>.wav unless a handle
\* is held, then writeframes
ArchiverAppend(r, u) ==
    [r EXCEPT !.files = @ \cup {u},
              !.disk = @ \cup {<<u, "wav">>},
              !.appended = @ \cup {u},
              !.closes = 0,
              !.truncated = IF u \notin r.files /\ <<u, "wav">> \in r.disk
                            THEN @ \cup {u} ELSE @]

\* "self.audio_archiver.append(user_id, data)" under the lock, which is released
RecWriteAppend ==
    /\ rec.write = "append"
    /\ rec' = [ArchiverAppend(rec, rec.write_user)
                  EXCEPT !.lock = "free", !.write = "idle", !.write_user = 0,
                         !.writes = @ + 1]
    /\ UNCHANGED <<botVars, clockVars, old, sk, restVars>>

\* DiscordSink.cleanup up to "with self._archiver_lock": the extras are merged
RecCleanupBegin ==
    /\ rec.cleanup = "idle"
    /\ rec.cleanups < MaxCleanups
    /\ rec' = [rec EXCEPT !.cleanup = "lock"]
    /\ UNCHANGED <<botVars, clockVars, old, sk, restVars>>

\* AudioArchiver.close up to the conversion loop: nothing without a handle; else
\* the handles are closed and forgotten, and unless the format is "wav" or pydub
\* cannot be imported, every .wav of the folder is to be converted
ArchiverCloseHandles(r) ==
    IF r.audio_format = "wav" \/ ~r.pydub
    THEN [r EXCEPT !.files = {}, !.cleanup = "finish"]
    ELSE [r EXCEPT !.files = {},
                   !.todo = {u \in Users : <<u, "wav">> \in r.disk},
                   !.outcome = [u \in Users |-> "none"],
                   !.cleanup = "convert"]

\* (variant) close() without "if not self._files: return"
ArchiverCloseUntested(r) == ArchiverCloseHandles(r)

\* AudioArchiver.close: "if not self._files: return", else the handles and the
\* conversion
ArchiverClose(r) ==
    IF r.files = {} THEN [r EXCEPT !.cleanup = "finish"]
    ELSE ArchiverCloseHandles(r)

\* the cleaning thread obtains _archiver_lock and calls audio_archiver.close()
RecCleanupLock ==
    /\ rec.cleanup = "lock"
    /\ rec.lock = "free"
    /\ rec' = ArchiverClose([rec EXCEPT !.lock = "cleanup",
                                        !.closes = Min(@ + 1, 2)])
    /\ UNCHANGED <<botVars, clockVars, old, sk, restVars>>

\* (variant) the WAV removed whatever the conversion did
DiskAfterConversionRemoving(disk, u, fmt, result) ==
    (disk \ {<<u, "wav">>}) \cup (IF result \in {"ok", "remove", "export_partial"}
                                  THEN {<<u, fmt>>} ELSE {})

\* the body of the conversion loop for user_<u>.wav: from_wav, export to
\* user_<u>.<fmt>, os.remove of the WAV; an exception leaves the rest undone
DiskAfterConversion(disk, u, fmt, result) ==
    IF result = "ok" THEN (disk \ {<<u, "wav">>}) \cup {<<u, fmt>>}
    ELSE IF result \in {"remove", "export_partial"} THEN disk \cup {<<u, fmt>>}
    ELSE disk

\* one pass of the loop of _convert_to_target_format
RecConvert(u, result) ==
    /\ rec.cleanup = "convert"
    /\ u \in rec.todo
    /\ rec' = [rec EXCEPT !.disk = DiskAfterConversion(@, u, rec.audio_format, result),
                          !.outcome[u] = IF result = "ok" THEN "ok" ELSE "failed",
                          !.todo = @ \ {u}]
    /\ UNCHANGED <<botVars, clockVars, old, sk, restVars>>

\* the loop is over and close() returns
RecConvertEnd ==
    /\ rec.cleanup = "convert"
    /\ rec.todo = {}
    /\ rec' = [rec EXCEPT !.cleanup = "finish"]
    /\ UNCHANGED <<botVars, clockVars, old, sk, restVars>>

\* the lock is released, super().cleanup(), and cleanup() returns
RecCleanupEnd ==
    /\ rec.cleanup = "finish"
    /\ rec' = [rec EXCEPT !.lock = "free", !.cleanup = "idle", !.cleanups = @ + 1]
    /\ UNCHANGED <<botVars, clockVars, old, sk, restVars>>

InitRecSpec ==
    /\ IdleBot /\ InitOld /\ InitSink /\ InitRest
    /\ \E fmt \in AudioFormats, pydub \in BOOLEAN : InitRec(fmt, pydub)

NextRec ==
    \/ \E u \in Users : RecWriteBegin(u)
    \/ RecWriteLock
    \/ RecWriteAppend
    \/ RecCleanupBegin
    \/ RecCleanupLock
    \/ \E u \in Users, result \in ConversionResults : RecConvert(u, result)
    \/ RecConvertEnd
    \/ RecCleanupEnd

SpecRec == InitRecSpec /\ [][NextRec]_vars

\* ------- one record-only session from /record to the end of its stop
\* e2e.pc: "idle", "active", then through the VoiceClient "lib_cleanup",
\* "cb_finalize", "cb_cleanup", "cb_pop", and "stopped".
\* e2e.snapshot (history): the guild's identity map when the session was created;
\* e2e.received (history): a non-empty frame reached write()

\* PiaPiaBot.update_player_map: the guild's map is replaced by a new dict
E2EUpdatePlayerMap(pm) ==
    /\ pm # e2e.player_map
    /\ e2e' = [e2e EXCEPT !.player_map = pm]
    /\ UNCHANGED <<botVars, clockVars, old, sk, rec, buf, rt, moreVars>>

\* _create_session_for_guild: add_or_update_player for every entry of the map
SessionPlayers(pm) == [u \in Users |-> pm[u]]

\* start_record_session with a VoiceClient: the session and its folder are
\* created, the sink records
E2EStart ==
    /\ e2e.pc = "idle"
    /\ e2e' = [e2e EXCEPT !.pc = "active",
                          !.snapshot = e2e.player_map,
                          !.players = SessionPlayers(e2e.player_map)]
    /\ UNCHANGED <<botVars, clockVars, old, sk, rec, buf, rt, moreVars>>

\* DiscordSink.write while the VoiceClient records: "if not data: return", else
\* the archiver appends to user_<id>.wav
E2EWrite(u, empty) ==
    /\ e2e.pc \in {"active", "lib_cleanup"}
    /\ e2e.frames < MaxFrames
    /\ e2e' = IF empty THEN [e2e EXCEPT !.frames = @ + 1]
              ELSE [e2e EXCEPT !.frames = @ + 1,
                               !.received = TRUE,
                               !.handles = @ \cup {u},
                               !.audio = @ \cup {<<u, "wav">>}]
    /\ UNCHANGED <<botVars, clockVars, old, sk, rec, buf, rt, moreVars>>

\* (variant) the record written from the guild's current map
LivePlayers(e) == e.player_map

\* AudioSessionInfo.to_dict: "players" from self.players
SavedPlayers(e) == e.players

\* _finalize_session_meta_for_guild on the session: ended_at set if None, then
\* save_json writes the whole record
E2EFinalize(e) ==
    LET at == IF e.ended_at = None THEN 1 ELSE e.ended_at IN
    [e EXCEPT !.ended_at = at,
              !.meta = [exists |-> TRUE, ended_at |-> at,
                        players |-> SavedPlayers(e), extra |-> FALSE]]

\* DiscordSink.cleanup: _write_session_meta_extras reads the file ({} when it is
\* not there), sets "extra" and writes it back; then audio_archiver.close()
E2ESinkCleanup(e) ==
    [e EXCEPT !.meta = [@ EXCEPT !.exists = TRUE, !.extra = TRUE],
              !.handles = {}]

\* stop_current_session, the VoiceClient accepts stop_recording()
E2EStopRecording ==
    /\ e2e.pc = "active"
    /\ e2e' = [e2e EXCEPT !.pc = "lib_cleanup"]
    /\ UNCHANGED <<botVars, clockVars, old, sk, rec, buf, rt, moreVars>>

\* stop_current_session without a VoiceClient: _close_and_clean_sink_for_guild
E2EStopDirect ==
    /\ e2e.pc = "active"
    /\ e2e' = [E2ESinkCleanup(E2EFinalize(e2e)) EXCEPT !.pc = "stopped"]
    /\ UNCHANGED <<botVars, clockVars, old, sk, rec, buf, rt, moreVars>>

\* the VoiceClient's receive thread ends: it calls sink.cleanup() and schedules
\* the callback given to vc.start_recording
E2ELibCleanup ==
    /\ e2e.pc = "lib_cleanup"
    /\ e2e' = [E2ESinkCleanup(e2e) EXCEPT !.pc = "cb_finalize"]
    /\ UNCHANGED <<botVars, clockVars, old, sk, rec, buf, rt, moreVars>>

\* on_stop_record_callback: finalize in a thread
E2ECbFinalize ==
    /\ e2e.pc = "cb_finalize"
    /\ e2e' = [E2EFinalize(e2e) EXCEPT !.pc = "cb_cleanup"]
    /\ UNCHANGED <<botVars, clockVars, old, sk, rec, buf, rt, moreVars>>

\* on_stop_record_callback: sink_obj.cleanup in a thread
E2ECbCleanup ==
    /\ e2e.pc = "cb_cleanup"
    /\ e2e' = [E2ESinkCleanup(e2e) EXCEPT !.pc = "cb_pop"]
    /\ UNCHANGED <<botVars, clockVars, old, sk, rec, buf, rt, moreVars>>

\* on_stop_record_callback: the session entry is popped
E2ECbPop ==
    /\ e2e.pc = "cb_pop"
    /\ e2e' = [e2e EXCEPT !.pc = "stopped"]
    /\ UNCHANGED <<botVars, clockVars, old, sk, rec, buf, rt, moreVars>>

InitSessionSpec ==
    /\ IdleBot /\ InitOld /\ InitSink /\ InitRec("wav", TRUE)
    /\ \E pm \in PlayerMaps : InitE2E(pm)
    /\ InitBuf(TRUE, 1)
    /\ InitRt(CHOOSE s \in Sessions : s.players = <<>> /\ s.extra = {})
    /\ InitMore

NextSession ==
    \/ \E pm \in PlayerMaps : E2EUpdatePlayerMap(pm)
    \/ E2EStart
    \/ \E u \in Users, empty \in BOOLEAN : E2EWrite(u, empty)
    \/ E2EStopRecording
    \/ E2EStopDirect
    \/ E2ELibCleanup
    \/ E2ECbFinalize
    \/ E2ECbCleanup
    \/ E2ECbPop

SpecSession == InitSessionSpec /\ [][NextSession]_vars

\* ------- the monitor thread with AudioBuffer, Transcriber and the filter
\* (src/sinks/discord_sink.py, audio_buffer.py, transcriber.py, filters.py)
\* buf.now: time.time() in ticks; a frame is <<user, ordinal>>; a queue item is
\* <<user, frame, timestamp>>; buf.keys: the keys of AudioBuffer.speakers in
\* insertion order; buf.pc: "get" (top of the loop), "scan" (the pass over the
\* speakers, buf.todo left), "transcribe" (inside transcribe_wav for buf.cur).
\* History: buf.flushes (one record per flush that gave a blob: gap is the
\* time since the last frame added to the buffer, silent the time from that
\* frame to the speaker's next frame, queued or still to come), buf.last_tr
\* (the latest transcribe_wav call), buf.put_by (who ran the latest put on
\* output_queue, the asyncio.Queue of the bot: "thread" is the monitor thread,
\* "loop" a callback scheduled on the event loop)

\* the time of the first frame of u waiting in voice_queue, else the present
NextAudioTime(b, u) ==
    LET waiting == SelectSeq(b.voice_queue, LAMBDA item : item[1] = u)
    IN IF waiting = <<>> THEN b.now ELSE Head(waiting)[3]

\* deque(maxlen=data_limit).append
DequeAppend(q, x) ==
    IF Len(q) >= data_limit THEN Append(Tail(q), x) ELSE Append(q, x)

\* (variant) add_audio that keeps what it finds under the user's id
AddAudioKeeping(b, u, frame, ts) ==
    [b EXCEPT !.speakers[u] = [tracked |-> TRUE, start_time |-> @.start_time,
                               last_audio_time |-> ts],
              !.buffers[u] = DequeAppend(@, frame),
              !.keys = IF b.speakers[u].tracked THEN @ ELSE Append(@, u)]

\* AudioBuffer.add_audio
AddAudio(b, u, frame, ts) ==
    IF ~b.speakers[u].tracked /\ max_speakers > 0 /\ Len(b.keys) >= max_speakers
    THEN b
    ELSE LET b1 == IF ~b.speakers[u].tracked
                   THEN [b EXCEPT !.speakers[u] = [tracked |-> TRUE, start_time |-> ts,
                                                   last_audio_time |-> ts],
                                  !.buffers[u] = <<>>,
                                  !.keys = Append(@, u)]
                   ELSE b
         IN [b1 EXCEPT !.buffers[u] = DequeAppend(@, frame),
                       !.speakers[u].last_audio_time = ts]

\* (variant) a gap equal to the threshold not counted
IsSpeakerDoneStrict(b, u, threshold) ==
    b.speakers[u].tracked /\ (b.now - b.speakers[u].last_audio_time) > threshold

\* AudioBuffer.is_speaker_done
IsSpeakerDone(b, u, threshold) ==
    IF ~b.speakers[u].tracked THEN FALSE
    ELSE (b.now - b.speakers[u].last_audio_time) >= threshold

\* the sequence s without its entries equal to x
Without(s, x) == SelectSeq(s, LAMBDA y : y # x)

\* (variant) a flush that empties the two maps
FlushSpeakerClearing(b, u) ==
    [b EXCEPT !.speakers = [v \in Users |-> NoSpeaker],
              !.buffers = [v \in Users |-> <<>>],
              !.keys = <<>>]

\* AudioBuffer.flush_speaker: the speaker and its deque are deleted
FlushSpeaker(b, u) ==
    [b EXCEPT !.speakers[u] = NoSpeaker,
              !.buffers[u] = <<>>,
              !.keys = Without(@, u)]

\* str.strip and str.lower on the texts a backend returns here
Strip(text) == IF text = " " THEN "" ELSE text
Lower(text) == IF text = "Sous-titrage FR ?" THEN "sous-titrage fr ?" ELSE text

\* is_subtitle_noise: re.match of a NOISE_PATTERNS entry on text.strip().lower()
is_subtitle_noise(text) ==
    IF text = "" THEN FALSE
    ELSE Lower(Strip(text)) = "sous-titrage fr ?"

\* (variant) the flag set whatever settings.enable_subtitle_noise_filter is
IsNoiseUnconditional(enabled, cleaned_text) == is_subtitle_noise(cleaned_text)

\* "if cleaned_text and self.enable_subtitle_noise_filter:
\*      if is_subtitle_noise(cleaned_text): is_noise = True"
IsNoise(enabled, cleaned_text) ==
    cleaned_text # "" /\ enabled /\ is_subtitle_noise(cleaned_text)

\* what the WAV blob and the backend do in one transcribe_wav call: the
\* duration cannot be read ("bad_wav"), the backend raises, or it returns a text
TranscribeOutcomes == {"bad_wav", "raises", "", " ", "bonjour", "Sous-titrage FR ?"}

\* (variant) "<=" for "<"
TooShortInclusive(duration, mind) == duration <= mind

\* "if duration < self.min_duration"
TooShort(duration, mind) == duration < mind

\* (variant) the exception of the backend not caught
BackendErrorRaised == [text |-> "", raised |-> TRUE]

\* "except Exception as e: logger.error(...); return """
BackendError == [text |-> "", raised |-> FALSE]

\* Transcriber.transcribe_wav on a blob of the given duration
TranscribeWav(duration, mind, outcome) ==
    IF outcome = "bad_wav"
    THEN [called |-> TRUE, duration |-> duration, outcome |-> outcome,
          text |-> "", calls |-> 0, raised |-> FALSE]
    ELSE IF TooShort(duration, mind)
    THEN [called |-> TRUE, duration |-> duration, outcome |-> outcome,
          text |-> "", calls |-> 0, raised |-> FALSE]
    ELSE IF outcome = "raises"
    THEN [called |-> TRUE, duration |-> duration, outcome |-> outcome,
          text |-> BackendError.text, calls |-> 1, raised |-> BackendError.raised]
    ELSE [called |-> TRUE, duration |-> duration, outcome |-> outcome,
          text |-> outcome, calls |-> 1, raised |-> FALSE]

\* DiscordSink.write: timestamp and enqueue
BufWrite(u) ==
    /\ buf.writes < MaxFrames
    /\ buf' = [buf EXCEPT !.writes = @ + 1,
                          !.voice_queue = Append(@, <<u, <<u, buf.writes + 1>>, buf.now>>)]
    /\ UNCHANGED <<botVars, clockVars, old, sk, rec, e2e, rt, moreVars>>

\* "user_id, data, ts = self.voice_queue.get(timeout=0.1)" gives an item:
\* add_audio, then "for uid in list(self.audio_buffer.speakers.keys())"
BufGet ==
    /\ buf.pc = "get"
    /\ buf.voice_queue # <<>>
    /\ LET item == Head(buf.voice_queue)
           b1 == AddAudio([buf EXCEPT !.voice_queue = Tail(@)],
                          item[1], item[2], item[3])
       IN buf' = [b1 EXCEPT !.pc = "scan", !.todo = b1.keys]
    /\ UNCHANGED <<botVars, clockVars, old, sk, rec, e2e, rt, moreVars>>

\* (variant) "except Empty: continue": back to the top of the loop
AfterEmptyContinue == "get"

\* "except Empty: pass": the loop goes on with the pass over the speakers
AfterEmpty == "scan"

\* the get times out, then the pass over the speakers
BufGetEmpty ==
    /\ buf.pc = "get"
    /\ buf.voice_queue = <<>>
    /\ buf.keys # <<>>
    /\ buf' = [buf EXCEPT !.pc = AfterEmpty, !.todo = buf.keys]
    /\ UNCHANGED <<botVars, clockVars, old, sk, rec, e2e, rt, moreVars>>

\* one uid of the pass: not done, or flushed and handed to transcribe_wav
BufScan ==
    /\ buf.pc = "scan"
    /\ buf.todo # <<>>
    /\ LET u == Head(buf.todo) IN
       IF IsSpeakerDone(buf, u, SilenceTicks)
       THEN buf' = [FlushSpeaker(buf, u)
                      EXCEPT !.pc = "transcribe",
                             !.todo = Tail(buf.todo),
                             !.cur = <<[user |-> u, blob |-> buf.buffers[u],
                                        start |-> buf.speakers[u].start_time,
                                        end |-> buf.speakers[u].last_audio_time]>>,
                             !.flushes = Append(@,
                                 [user |-> u, blob |-> buf.buffers[u],
                                  gap |-> buf.now - buf.speakers[u].last_audio_time,
                                  silent |-> NextAudioTime(buf, u)
                                             - buf.speakers[u].last_audio_time])]
       ELSE buf' = [buf EXCEPT !.todo = Tail(@)]
    /\ UNCHANGED <<botVars, clockVars, old, sk, rec, e2e, rt, moreVars>>

\* the pass is over: back to "while self.running"
BufScanEnd ==
    /\ buf.pc = "scan"
    /\ buf.todo = <<>>
    /\ buf' = [buf EXCEPT !.pc = "get"]
    /\ UNCHANGED <<botVars, clockVars, old, sk, rec, e2e, rt, moreVars>>

\* transcribe_wav returns; "if not cleaned_text: continue", else the event is
\* built, written to the session log and put on output_queue by
\* "self.output_queue.put_nowait(event)" in the thread itself; an exception
\* reaching the loop ends the pass ("except Exception" of the loop)
BufTranscribe(outcome) ==
    /\ buf.pc = "transcribe"
    /\ LET c   == buf.cur[1]
           tr  == TranscribeWav(Len(c.blob), buf.min_duration, outcome)
           cleaned_text == Strip(tr.text)
           event == [user |-> c.user, start |-> c.start, end |-> c.end,
                     text |-> cleaned_text,
                     is_noise |-> IsNoise(buf.enable_subtitle_noise_filter, cleaned_text)]
           b1  == [buf EXCEPT !.last_tr = tr, !.cur = <<>>]
       IN IF tr.raised
          THEN buf' = [b1 EXCEPT !.pc = "get", !.todo = <<>>]
          ELSE IF cleaned_text = ""
          THEN buf' = [b1 EXCEPT !.pc = "scan"]
          ELSE buf' = [b1 EXCEPT !.pc = "scan",
                                 !.log = Append(@, event),
                                 !.output_queue = Append(@, event),
                                 !.put_by = "thread"]
    /\ UNCHANGED <<botVars, clockVars, old, sk, rec, e2e, rt, moreVars>>

\* a tick passes while the thread waits in get() on an empty queue or is inside
\* transcribe_wav; the other steps of the loop take no time
BufTick ==
    /\ buf.now < MaxTicks
    /\ \/ buf.pc = "transcribe"
       \/ buf.pc = "get" /\ buf.voice_queue = <<>>
    /\ buf' = [buf EXCEPT !.now = @ + 1]
    /\ UNCHANGED <<botVars, clockVars, old, sk, rec, e2e, rt, moreVars>>

InitBufferSpec ==
    /\ IdleBot /\ InitOld /\ InitSink /\ InitRec("wav", TRUE)
    /\ InitE2E([u \in Users |-> "absent"])
    /\ InitRt(CHOOSE s \in Sessions : s.players = <<>> /\ s.extra = {})
    /\ InitMore
    /\ \E enabled \in BOOLEAN, mind \in 1..MaxMinDuration : InitBuf(enabled, mind)

NextBuffer ==
    \/ \E u \in Users : BufWrite(u)
    \/ BufGet
    \/ BufGetEmpty
    \/ BufScan
    \/ BufScanEnd
    \/ \E outcome \in TranscribeOutcomes : BufTranscribe(outcome)
    \/ BufTick

SpecBuffer == InitBufferSpec /\ [][NextBuffer]_vars

\* the monitor thread runs: a step of the loop that can be taken is taken, and
\* every transcribe_wav call returns
BufferFairness ==
    /\ WF_vars(BufGet)
    /\ WF_vars(BufGetEmpty)
    /\ WF_vars(BufScan)
    /\ WF_vars(BufScanEnd)
    /\ WF_vars(\E outcome \in TranscribeOutcomes : BufTranscribe(outcome))

SpecBufferLive == SpecBuffer /\ BufferFairness

\* ------- AudioSessionInfo.to_dict / from_dict (piapia/domain/sessions.py)
\* rt.pc: "session" (a session object), "record" (to_dict has made rt.record),
\* "back" (from_dict has made rt.back of rt.record)

\* str(uid) and int(k) on the sids of Users
Digits == <<"1", "2", "3", "4", "5", "6", "7", "8", "9">>
StrOfInt(n) == Digits[n]
IntOfStr(s) == CHOOSE n \in DOMAIN Digits : Digits[n] = s

\* _dt_to_iso: "dt.isoformat() if dt else None"
dt_to_iso(dt) == IF dt = "None" THEN "None" ELSE "2025-12-09T20:30:00+00:00"

\* _dt_from_iso: None for a missing or empty value, else datetime.fromisoformat
dt_from_iso(value) == IF value \in {"None", ""} THEN "None" ELSE "t1"

\* PlayerSessionInfo.to_dict
PlayerToDict(p) ==
    [user_id |-> p.user_id, player |-> p.player, character |-> p.character,
     first_offset_seconds |-> p.first_offset_seconds,
     first_spoke_at |-> dt_to_iso(p.first_spoke_at)]

\* (variant) from_dict that does not read first_spoke_at
PlayerFromDictPartial(d) ==
    [user_id |-> d.user_id, player |-> d.player, character |-> d.character,
     first_offset_seconds |-> d.first_offset_seconds,
     first_spoke_at |-> "None"]

\* PlayerSessionInfo.from_dict
PlayerFromDict(d) ==
    [user_id |-> d.user_id, player |-> d.player, character |-> d.character,
     first_offset_seconds |-> d.first_offset_seconds,
     first_spoke_at |-> dt_from_iso(d.first_spoke_at)]

\* AudioSessionInfo.to_dict: players keyed by str(uid); "extra" only when the
\* session's extra is not empty (has_extra: the record holds the key)
ToDict(s) ==
    [made |-> TRUE,
     session_id |-> s.session_id, guild_id |-> s.guild_id, mode |-> s.mode,
     label |-> s.label,
     players |-> [kind |-> "dict",
                  items |-> [k \in {StrOfInt(u) : u \in DOMAIN s.players} |->
                                PlayerToDict(s.players[IntOfStr(k)])]],
     has_extra |-> s.extra # {},
     extra |-> s.extra]

\* the players of a record as a list of entries, in ascending or descending
\* order of the keys
PlayersAsList(items, descending) ==
    LET ids == SelectSeq([i \in 1..NumUsers |-> i],
                         LAMBDA u : StrOfInt(u) \in DOMAIN items)
        n == Len(ids)
    IN [i \in 1..n |->
           items[StrOfInt(ids[IF descending THEN n + 1 - i ELSE i])]]

\* the players part of from_dict: "data.get("players") or {}", then by kind
PlayersFromRecord(raw) ==
    IF raw.kind = "dict"
    THEN [u \in {IntOfStr(k) : k \in DOMAIN raw.items} |->
              PlayerFromDict(raw.items[StrOfInt(u)])]
    ELSE [u \in {raw.items[i].user_id : i \in DOMAIN raw.items} |->
              LET last == CHOOSE i \in DOMAIN raw.items :
                              /\ raw.items[i].user_id = u
                              /\ \A j \in DOMAIN raw.items :
                                     raw.items[j].user_id = u => j <= i
              IN PlayerFromDict(raw.items[last])]

\* AudioSessionInfo.from_dict
FromDict(d) ==
    [made |-> TRUE,
     session_id |-> d.session_id, guild_id |-> d.guild_id, mode |-> d.mode,
     label |-> d.label,
     players |-> PlayersFromRecord(d.players),
     extra |-> IF d.has_extra THEN d.extra ELSE {}]

\* session.to_dict()
RtToDict ==
    /\ rt.pc = "session"
    /\ rt' = [rt EXCEPT !.pc = "record", !.record = ToDict(rt.session)]
    /\ UNCHANGED <<botVars, clockVars, old, sk, rec, e2e, buf, moreVars>>

\* the same record with its players held as a list of entries
RtAsList(descending) ==
    /\ rt.pc = "record"
    /\ rt.record.players.kind = "dict"
    /\ rt' = [rt EXCEPT !.record.players =
                 [kind |-> "list",
                  items |-> PlayersAsList(rt.record.players.items, descending)]]
    /\ UNCHANGED <<botVars, clockVars, old, sk, rec, e2e, buf, moreVars>>

\* AudioSessionInfo.from_dict(record)
RtFromDict ==
    /\ rt.pc = "record"
    /\ rt' = [rt EXCEPT !.pc = "back", !.back = FromDict(rt.record)]
    /\ UNCHANGED <<botVars, clockVars, old, sk, rec, e2e, buf, moreVars>>

InitRoundTripSpec ==
    /\ IdleBot /\ InitOld /\ InitSink /\ InitRec("wav", TRUE)
    /\ InitE2E([u \in Users |-> "absent"])
    /\ InitBuf(TRUE, 1)
    /\ InitMore
    /\ \E s \in Sessions : InitRt(s)

NextRoundTrip ==
    \/ RtToDict
    \/ \E descending \in BOOLEAN : RtAsList(descending)
    \/ RtFromDict

SpecRoundTrip == InitRoundTripSpec /\ [][NextRoundTrip]_vars

\* ------- session sids (piapia/domain/sessions.py, piapia/utils/session_paths.py,
\* start_record_session of piapia/bot/piapia_bot.py)
\* sids.now: datetime.now(timezone.utc), in instants of 1/SubSeconds second;
\* sids.created: one entry per _create_session_for_guild call; sids.active[g]:
\* current_sink_by_guild holds a sink of guild g

\* now.strftime('%Y-%m-%d_%H-%M-%S'): the instant cut to its whole second
Strftime(instant) == instant \div SubSeconds

\* make_session_id: f"{now.strftime(...)}_g{guild_id}"; the stamp has a fixed
\* width, so the string is given by the pair
make_session_id(guild_id, instant) == <<Strftime(instant), guild_id>>

\* build_session_paths: base_dir = logs_dir / audio_sessions_subdir / session_id,
\* meta_path = base_dir / "session_meta.json"
build_session_paths(session_id) ==
    [base_dir |-> <<"audio", session_id>>,
     meta_path |-> <<"audio", session_id, "session_meta.json">>]

\* start_record_session of guild g: nothing when the guild has a sink; else the
\* session is created, and the sink is registered unless _start_sink_for_session
\* raises (no VoiceClient)
IdStart(g, hasVc) ==
    /\ ~sids.active[g]
    /\ Len(sids.created) < MaxSessions
    /\ LET sid == make_session_id(g, sids.now) IN
       sids' = [sids EXCEPT
                 !.created = Append(@, [guild_id |-> g, started_at |-> sids.now,
                                        session_id |-> sid,
                                        paths |-> build_session_paths(sid)]),
                 !.active[g] = hasVc]
    /\ UNCHANGED notSids

\* the guild's session is stopped: its sink leaves current_sink_by_guild
IdStop(g) ==
    /\ sids.active[g]
    /\ sids' = [sids EXCEPT !.active[g] = FALSE]
    /\ UNCHANGED notSids

\* time passes
IdTick ==
    /\ sids.now < MaxInstant
    /\ sids' = [sids EXCEPT !.now = @ + 1]
    /\ UNCHANGED notSids

InitIdsSpec ==
    /\ IdleBot /\ InitOld /\ InitSink /\ InitRec("wav", TRUE)
    /\ InitE2E([u \in Users |-> "absent"])
    /\ InitBuf(TRUE, 1)
    /\ InitRt(CHOOSE s \in Sessions : s.players = <<>> /\ s.extra = {})
    /\ InitIds /\ InitPl /\ InitCu("new", TRUE) /\ InitWr("new", TRUE)

NextIds ==
    \/ \E g \in Guilds, hasVc \in BOOLEAN : IdStart(g, hasVc)
    \/ \E g \in Guilds : IdStop(g)
    \/ IdTick

SpecIds == InitIdsSpec /\ [][NextIds]_vars

\* ------- AudioSessionInfo.add_or_update_player (piapia/domain/sessions.py)
\* pl.players[u]: the PlayerSessionInfo of user u, or NoPlayer; "None" is
\* Python's None; pl.last (history): the arguments of the latest call

\* the values given for player and for character
PlayerNames == {"None", "alice", "bob"}
CharacterNames == {"None", "Pia", "Zed"}

\* (variant) the fields assigned whatever the arguments are
AddOrUpdatePlayerAssigning(players, user_id, player, character) ==
    [players EXCEPT ![user_id] =
        [present |-> TRUE, player |-> player, character |-> character]]

\* add_or_update_player: the entry is created when missing; "if player is not
\* None: info.player = player", "if character is not None: info.character = character"
AddOrUpdatePlayer(players, user_id, player, character) ==
    LET info == IF players[user_id].present THEN players[user_id]
                ELSE [present |-> TRUE, player |-> "None", character |-> "None"]
    IN [players EXCEPT ![user_id] =
          [present |-> TRUE,
           player |-> IF player # "None" THEN player ELSE info.player,
           character |-> IF character # "None" THEN character ELSE info.character]]

\* session.add_or_update_player(user_id, player=..., character=...)
PlAddOrUpdate(user_id, player, character) ==
    /\ pl' = [players |-> AddOrUpdatePlayer(pl.players, user_id, player, character),
              last |-> [user_id |-> user_id, player |-> player,
                        character |-> character]]
    /\ UNCHANGED notPl

InitPlayersSpec ==
    /\ IdleBot /\ InitOld /\ InitSink /\ InitRec("wav", TRUE)
    /\ InitE2E([u \in Users |-> "absent"])
    /\ InitBuf(TRUE, 1)
    /\ InitRt(CHOOSE s \in Sessions : s.players = <<>> /\ s.extra = {})
    /\ InitIds /\ InitPl /\ InitCu("new", TRUE) /\ InitWr("new", TRUE)

NextPlayers ==
    \E user_id \in Users, player \in PlayerNames, character \in CharacterNames :
        PlAddOrUpdate(user_id, player, character)

SpecPlayers == InitPlayersSpec /\ [][NextPlayers]_vars

\* ------- DiscordSink.cleanup of both generations (piapia/sinks/discord_sink.py,
\* src/sinks/discord_sink.py) with their archivers
\* cu.files: the users with an open handle (_files); cu.alive: the monitor
\* thread of the old generation has not left its loop; cu.pc: where cleanup() is,
\* "raised" when an exception left it; cu.errors (history): the errors met
\* during the current call; cu.close_called (history): the current call has
\* called audio_archiver.close(); cu.calls: the calls of cleanup() that ended

Generations == {"new", "old"}

\* what _write_session_meta_extras can meet: nothing, an error reading the file
\* (caught at 163-165), an error writing it (177-178), or an error of another
\* statement, as data.get on a file whose JSON is not an object
ExtrasOutcomes == {"ok", "read", "write", "other"}

\* (variant) cleanup() without a handler around _write_session_meta_extras
AfterExtrasUnhandled(outcome) == IF outcome = "other" THEN "raised" ELSE "close"

\* where cleanup() goes on after _write_session_meta_extras: "except Exception
\* as e: logger.error(...)" inside it and around the call
AfterExtras(outcome) == "close"

\* where cleanup() goes on when audio_archiver.close() raised: "except
\* Exception as e: logger.error(...)"
AfterCloseError == "super"

\* a frame of user u is archived before cleanup(): _get_or_open_file holds a handle
CuWrite(u) ==
    /\ cu.pc = "idle"
    /\ cu.calls = 0
    /\ cu.archiver
    /\ u \notin cu.files
    /\ cu' = [cu EXCEPT !.files = @ \cup {u}]
    /\ UNCHANGED notCu

\* cleanup() is called; the old generation sets running to False
CuCleanupBegin ==
    /\ cu.pc \in {"idle", "raised"}
    /\ cu.calls < MaxCleanups
    /\ cu' = [cu EXCEPT !.pc = IF cu.gen = "new" THEN "extras" ELSE "join",
                        !.running = (cu.gen = "new"),
                        !.errors = {},
                        !.close_called = FALSE]
    /\ UNCHANGED notCu

\* the monitor thread finds running False and leaves _monitor_loop
CuThreadExit ==
    /\ cu.alive
    /\ ~cu.running
    /\ cu' = [cu EXCEPT !.alive = FALSE]
    /\ UNCHANGED notCu

\* new generation: "try: self._write_session_meta_extras() except Exception"
CuExtras(outcome) ==
    /\ cu.pc = "extras"
    /\ cu' = [cu EXCEPT !.pc = AfterExtras(outcome),
                        !.errors = @ \cup (IF outcome = "ok" THEN {}
                                           ELSE {<<"extras", outcome>>})]
    /\ UNCHANGED notCu

\* old generation: "if self.thread.is_alive(): self.thread.join(timeout=1.0)";
\* the join returns when the thread has ended or when the second is over
CuJoin ==
    /\ cu.pc = "join"
    /\ cu' = [cu EXCEPT !.pc = "close"]
    /\ UNCHANGED notCu

\* "if self.audio_archiver is not None" fails
CuNoArchiver ==
    /\ cu.pc = "close"
    /\ ~cu.archiver
    /\ cu' = [cu EXCEPT !.pc = "super"]
    /\ UNCHANGED notCu

\* audio_archiver.close() runs to its end: the handles of failing raise in
\* wf.close(), which "except Exception: pass" swallows; _files is cleared; the
\* new generation converts, and logs a conversion that raised
CuClose(failing, conversion) ==
    /\ cu.pc = "close"
    /\ cu.archiver
    /\ failing \subseteq cu.files
    /\ conversion \in (IF cu.gen = "new" /\ cu.files # {} THEN {"ok", "failed"}
                       ELSE {"ok"})
    /\ cu' = [cu EXCEPT !.pc = "super",
                        !.close_called = TRUE,
                        !.files = {},
                        !.errors = @ \cup (IF failing = {} THEN {}
                                           ELSE {<<"close", "handle">>})
                                     \cup (IF conversion = "ok" THEN {}
                                           ELSE {<<"close", "conversion">>})]
    /\ UNCHANGED notCu

\* old generation, the thread outlived the join: while close() iterates over
\* _files.values(), _get_or_open_file of the thread inserts the handle of user u
\* and the iteration raises RuntimeError, which cleanup() catches; _files is not
\* cleared
CuCloseRaced(u) ==
    /\ cu.pc = "close"
    /\ cu.archiver
    /\ cu.gen = "old"
    /\ cu.alive
    /\ u \notin cu.files
    /\ cu' = [cu EXCEPT !.pc = AfterCloseError,
                        !.close_called = TRUE,
                        !.files = @ \cup {u},
                        !.errors = @ \cup {<<"close", "iteration">>}]
    /\ UNCHANGED notCu

\* super().cleanup(), and cleanup() returns
CuSuper ==
    /\ cu.pc = "super"
    /\ cu' = [cu EXCEPT !.pc = "idle", !.calls = @ + 1]
    /\ UNCHANGED notCu

InitCleanupSpec ==
    /\ IdleBot /\ InitOld /\ InitSink /\ InitRec("wav", TRUE)
    /\ InitE2E([u \in Users |-> "absent"])
    /\ InitBuf(TRUE, 1)
    /\ InitRt(CHOOSE s \in Sessions : s.players = <<>> /\ s.extra = {})
    /\ InitIds /\ InitPl /\ InitWr("new", TRUE)
    /\ \E gen \in Generations, archiver \in BOOLEAN : InitCu(gen, archiver)

NextCleanup ==
    \/ \E u \in Users : CuWrite(u)
    \/ CuCleanupBegin
    \/ CuThreadExit
    \/ \E outcome \in ExtrasOutcomes : CuExtras(outcome)
    \/ CuJoin
    \/ CuNoArchiver
    \/ \E failing \in SUBSET Users, conversion \in {"ok", "failed"} :
          CuClose(failing, conversion)
    \/ \E u \in Users : CuCloseRaced(u)
    \/ CuSuper

SpecCleanup == InitCleanupSpec /\ [][NextCleanup]_vars

\* ------- DiscordSink.write of both generations and what a frame causes
\* (piapia/sinks/discord_sink.py, src/sinks/discord_sink.py, audio_buffer.py)
\* wr.now: time.time() in ticks, which the system may set back; wr.start_ts and
\* wr.user_first_offset_seconds[u]: None or a number of ticks; wr.files: the
\* users with an open handle; wr.archived[u]: the writeframes calls on the file
\* of u; wr.voice_queue: items <<user, empty, timestamp>> (old generation);
\* wr.speakers: AudioBuffer.speakers (old generation); wr.extras: what the
\* latest cleanup() merged into session_meta.json. History: wr.last (the
\* latest write() call), wr.heard (the users of the non-empty frames), wr.first
\* (the user of the first of them, 0 before it)

\* (variant) the offset without max(0.0, ...)
FirstOffsetRaw(ts, start_ts) == ts - start_ts

\* "max(0.0, ts - self.start_ts)"
FirstOffset(ts, start_ts) == IF ts - start_ts > 0 THEN ts - start_ts ELSE 0

\* write() of the record-only sink on a frame that is not empty: start_ts, the
\* offset of the user, then append under the lock unless audio_archiver is None
NewWriteFrame(w, u, ts) ==
    LET start == IF w.start_ts = None THEN ts ELSE w.start_ts
        w1 == [w EXCEPT !.start_ts = start,
                        !.user_first_offset_seconds[u] =
                            IF @ = None THEN FirstOffset(ts, start) ELSE @]
    IN IF ~w.archiver THEN w1
       ELSE [w1 EXCEPT !.files = @ \cup {u}, !.archived[u] = @ + 1]

\* write() of the record-only sink: "if not data: return"
NewWrite(w, u, empty, ts) ==
    IF empty THEN w ELSE NewWriteFrame(w, u, ts)

\* write() of the record-and-transcribe sink: "timestamp = time.time();
\* self.voice_queue.put((user_id, data, timestamp))"
OldWrite(w, u, empty, ts) ==
    [w EXCEPT !.voice_queue = Append(@, <<u, empty, ts>>)]

\* the voice thread calls write(data, user_id)
WrWrite(u, empty) ==
    /\ wr.writes < MaxWrites
    /\ LET w1 == IF wr.gen = "new" THEN NewWrite(wr, u, empty, wr.now)
                 ELSE OldWrite(wr, u, empty, wr.now)
       IN wr' = [w1 EXCEPT !.writes = @ + 1,
                           !.last = [user_id |-> u, empty |-> empty],
                           !.heard = IF empty THEN @ ELSE @ \cup {u},
                           !.first = IF empty \/ @ # 0 THEN @ ELSE u]
    /\ UNCHANGED notWr

\* one iteration of _monitor_loop on an item of the queue: append to the
\* archive, add_audio, then the pass that flushes the speakers silent for the
\* threshold (the transcription of what is flushed is not followed here)
WrLoop ==
    /\ wr.gen = "old"
    /\ wr.voice_queue # <<>>
    /\ LET item == Head(wr.voice_queue)
           u == item[1]
           w1 == IF wr.archiver
                 THEN [wr EXCEPT !.files = @ \cup {u}, !.archived[u] = @ + 1]
                 ELSE wr
           w2 == [w1 EXCEPT !.voice_queue = Tail(@),
                            !.speakers[u] =
                               [tracked |-> TRUE, last_audio_time |-> item[3]]]
       IN wr' = [w2 EXCEPT !.speakers =
                    [v \in Users |->
                        IF w2.speakers[v].tracked
                           /\ w2.now - w2.speakers[v].last_audio_time >= SilenceTicks
                        THEN Untracked ELSE w2.speakers[v]]]
    /\ UNCHANGED notWr

\* what _write_session_meta_extras puts under "extra" of session_meta.json
ExtrasOf(w) ==
    [merged |-> TRUE, audio_start_ts |-> w.start_ts,
     user_first_offset_seconds |-> w.user_first_offset_seconds]

\* cleanup() of the record-only sink: _write_session_meta_extras, whose write
\* of the file succeeds (written) or raises and is logged, then the archiver is
\* closed
WrCleanup(written) ==
    /\ wr.gen = "new"
    /\ ~wr.extras.merged
    /\ wr' = [wr EXCEPT !.extras = IF written THEN ExtrasOf(wr) ELSE @,
                        !.files = {}]
    /\ UNCHANGED notWr

\* time.time() moves: a tick passes, or the system clock is set back by one
WrTick(d) ==
    /\ wr.now + d \in 0..MaxTicks
    /\ wr' = [wr EXCEPT !.now = @ + d]
    /\ UNCHANGED notWr

InitWriteSpec ==
    /\ IdleBot /\ InitOld /\ InitSink /\ InitRec("wav", TRUE)
    /\ InitE2E([u \in Users |-> "absent"])
    /\ InitBuf(TRUE, 1)
    /\ InitRt(CHOOSE s \in Sessions : s.players = <<>> /\ s.extra = {})
    /\ InitIds /\ InitPl /\ InitCu("new", TRUE)
    /\ \E gen \in Generations, archiver \in BOOLEAN : InitWr(gen, archiver)

NextWrite ==
    \/ \E u \in Users, empty \in BOOLEAN : WrWrite(u, empty)
    \/ WrLoop
    \/ \E written \in BOOLEAN : WrCleanup(written)
    \/ \E d \in {0 - 1, 1} : WrTick(d)

SpecWrite == InitWriteSpec /\ [][NextWrite]_vars

\* ================================================================ claims

\* the sessions some part of the bot holds as the running one of guild g: the sink
\* map, the session map, the sink the VoiceClient writes into
HeldSessions(g) ==
    {bot.current_sink_by_guild[g], bot.current_session_by_guild[g], bot.recording[g]} \ {0}

\* a start_record_session of guild g that changes nothing the bot holds
StartIsNoOp(g) ==
    StartSession(g) => UNCHANGED <<bot, next_id, guild_of, conn, cb_sink>>

\* C1: a guild never has two sessions active at once, under every interleaving of
\* start, stop, timer expiry, voice disconnect and shutdown; and a start issued
\* while the guild has a registered sink changes nothing: the session, its sink
\* and its timer stay as they were and no session is created.
C1_OneActiveSession ==
    /\ [](\A g \in Guilds : Cardinality(HeldSessions(g)) <= 1)
    /\ [][\A g \in Guilds : (bot.current_sink_by_guild[g] # 0) => StartIsNoOp(g)]_vars

\* a start was refused because a session is registered, and it still is
C1_Witness ==
    /\ start_result = "already_active"
    /\ \E g \in Guilds : /\ bot.current_sink_by_guild[g] # 0
                          /\ bot.current_session_by_guild[g] = bot.current_sink_by_guild[g]
                          /\ bot.session_timers[g] = bot.current_sink_by_guild[g]

\* the final state the stop of session k is to leave behind
StopFinalState(b, k) ==
    /\ b.ended_at[k] # None
    /\ b.meta_file[k].exists /\ b.meta_file[k].ended_at = b.ended_at[k]
    /\ b.cleanups[k] >= 1
    /\ b.task[k] = "none"
    /\ b.current_sink_by_guild[guild_of[k]] # k
    /\ b.current_session_by_guild[guild_of[k]] # k

\* C3: whichever path stops session k (the stop callback, the direct path taken
\* by the fallback, the timer or a voice disconnect), when that path has run to
\* its end endedAt is set and persisted, the archiver is closed, the timer is
\* cancelled and the guild has no sink or session entry of k.
C3_StopPathsAgree ==
    [][\A k \in SessionIds :
         (\/ bot.cb[k] = "pop" /\ bot'.cb[k] = "none"
          \/ /\ guild_of[k] # 0
             /\ bot.current_sink_by_guild[guild_of[k]] = k
             /\ bot'.current_sink_by_guild[guild_of[k]] = 0
             /\ bot'.cleanups[k] > bot.cleanups[k]
             /\ sh_pc' = sh_pc)
         => StopFinalState(bot', k)]_vars

\* C4: endedAt of a session is written by the first finalize that finds the
\* session and by no later one: it is unset before any finalize, it is the time
\* of the first one after it, and once set it never changes.
C4_EndedAtSetOnce ==
    /\ [](\A s \in SessionIds :
             /\ (bot.finalized[s] = 0 => bot.ended_at[s] = None)
             /\ (bot.finalized[s] >= 1 => bot.ended_at[s] = 1))
    /\ [][\A s \in SessionIds :
            bot.ended_at[s] # None => bot'.ended_at[s] = bot.ended_at[s]]_vars

\* a session has been finalized a second time and kept the first time
C4_Witness ==
    \E s \in SessionIds : bot.finalized[s] = 2 /\ bot.ended_at[s] = 1

\* C8: shutdown finalizes the metadata of every session active when it runs and
\* closes its sink, goes on to the next guild whatever happened for the one
\* before, and leaves no registered sink or session.
C8_ShutdownFinalizesAll ==
    /\ (sh_pc \in {"cleanup", "resume"} =>
          /\ bot.ended_at[sh_cur[2]] # None
          /\ bot.meta_file[sh_cur[2]].ended_at # None)
    /\ (sh_pc = "resume" => bot.cleanups[sh_cur[2]] >= 1)
    /\ (sh_pc = "done" => \A g \in Guilds : bot.current_sink_by_guild[g] = 0
                                           /\ bot.current_session_by_guild[g] = 0)

\* C5: once /stop has been issued for a session, its timer task neither sends the
\* warning nor performs the automatic stop.
C5_NoTimerAfterManualStop ==
    [][\A s \in SessionIds :
         stop_requested[s] => warn_at'[s] = warn_at[s] /\ stop_at'[s] = stop_at[s]]_vars

\* C6: for a session started at minute t0 with limit M and never stopped by
\* /stop: with M > 5 the warning is sent once, at t0 + M - 5, and the automatic
\* stop happens once, at t0 + M; with 0 < M <= 5 no warning is sent and the stop
\* happens at t0 + M; with M = 0 there is no timer, no warning and no stop.
C6_TimerSchedule ==
    \A s \in SessionIds :
        (started_at[s] # None /\ ~stop_requested[s]) =>
        LET M  == max_session_duration_minutes
            t0 == started_at[s]
        IN /\ (M = 0 => warn_at[s] = None /\ stop_at[s] = None /\ bot.task[s] = "none")
           /\ (M > 0 => /\ stop_at[s] \in {None, t0 + M}
                        /\ (now > t0 + M => stop_at[s] = t0 + M))
           /\ (M > 0 /\ M <= warning_delay => warn_at[s] = None)
           /\ (M > warning_delay =>
                  /\ warn_at[s] \in {None, t0 + M - warning_delay}
                  /\ (now > t0 + M - warning_delay => warn_at[s] = t0 + M - warning_delay))

\* C7: a start issued for a guild with no voice connection and no session leaves
\* the guild without a sink and not marked as recording, and touches no other
\* guild; a start issued once the guild is connected then records.
C7_StartWithoutVoice ==
    [][\A g \in Guilds :
         (~old.guild_to_helper[g] /\ old.guild_sinks[g] = 0 /\ OldStartRecording(g)) =>
            /\ old'.guild_sinks[g] = 0
            /\ ~old'.guild_is_recording[g]
            /\ \A h \in Guilds \ {g} :
                  /\ old'.guild_sinks[h] = old.guild_sinks[h]
                  /\ old'.guild_is_recording[h] = old.guild_is_recording[h]]_vars

\* the arrival numbers of the frames of user u in a sequence of frames
FramesOf(u, frames) ==
    LET F[i \in 0..Len(frames)] ==
          IF i = 0 THEN <<>>
          ELSE IF frames[i][1] = u THEN Append(F[i - 1], frames[i][2]) ELSE F[i - 1]
    IN F[Len(frames)]

\* C2: once the sink has been torn down (cleanup returned, the monitor thread
\* ended), each speaker's archive holds every frame write() accepted for that
\* speaker, in arrival order; none that waited in the queue is missing.
C2_NoAudioLost ==
    (sk.cleanup = "done" /\ sk.thread = "exit") =>
        \A u \in Users : sk.archive[u] = FramesOf(u, sk.accepted)

\* C9: write() does not block: it only stamps and enqueues the frame; it does no
\* file I/O and never waits for the archiver lock, a file write or a conversion.
C9_WriteNeverBlocks ==
    /\ rec.write # "append"
    /\ ~(rec.write = "lock" /\ rec.lock = "cleanup")

\* the converted files of user u in the session folder
ConvertedFiles(u) == {f \in rec.disk : f[1] = u /\ f[2] # "wav"}

\* C10: when close() of an archiver with a target format other than WAV returns,
\* a file whose conversion failed still has its WAV, a file whose conversion
\* succeeded has no WAV and exactly one converted file, and every WAV that is
\* left is one whose own conversion failed: the failure of one file stops
\* neither the loop nor close(). Without pydub every speaker written to keeps
\* the WAV and nothing is converted.
C10_ConversionKeepsRaw ==
    (rec.cleanup = "finish" /\ rec.audio_format # "wav") =>
        \A u \in Users :
            IF rec.pydub
            THEN /\ (rec.outcome[u] = "failed" => <<u, "wav">> \in rec.disk)
                 /\ (rec.outcome[u] = "ok" => /\ <<u, "wav">> \notin rec.disk
                                              /\ Cardinality(ConvertedFiles(u)) = 1)
                 /\ (<<u, "wav">> \in rec.disk => rec.outcome[u] = "failed")
            ELSE /\ (u \in rec.appended => <<u, "wav">> \in rec.disk)
                 /\ ConvertedFiles(u) = {}

\* close() has returned after one conversion failed and another succeeded
C10_Witness ==
    /\ rec.cleanup = "finish" /\ rec.audio_format # "wav" /\ rec.pydub
    /\ \E u, v \in Users : rec.outcome[u] = "failed" /\ rec.outcome[v] = "ok"

\* C11: close() is idempotent: a close() called when close() has already run
\* since the last append, or on an archiver that never received data, returns
\* at once: no handle is closed, nothing is converted and the files of the
\* session folder are the same as before the call.
C11_CloseIdempotent ==
    [][(/\ rec.cleanup = "lock" /\ rec'.cleanup # "lock"
        /\ (rec.closes >= 1 \/ rec.appended = {}))
       => /\ rec'.cleanup = "finish"
          /\ rec'.disk = rec.disk
          /\ rec'.files = rec.files
          /\ rec'.todo = rec.todo
          /\ rec'.outcome = rec.outcome]_vars

\* a second close() has returned on a folder that holds files, with a target
\* format that asks for conversion
C11_Witness ==
    /\ rec.closes = 2 /\ rec.cleanup = "finish"
    /\ rec.disk # {} /\ rec.audio_format # "wav" /\ rec.pydub

\* C12: a session started and stopped without any audio frame received ends
\* with a session_meta.json that exists, has ended_at set and holds as players
\* the identity map of the moment the session started, and with no audio file.
C12_SilentSession ==
    (e2e.pc = "stopped" /\ ~e2e.received) =>
        /\ e2e.meta.exists
        /\ e2e.meta.ended_at # None
        /\ e2e.meta.players = e2e.snapshot
        /\ e2e.audio = {}

\* a silent session has stopped through the callback, after the identity map
\* of the guild was changed during the session
C12_Witness ==
    /\ e2e.pc = "stopped" /\ ~e2e.received
    /\ e2e.meta.extra
    /\ e2e.player_map # e2e.snapshot
    /\ \E u \in Users : e2e.snapshot[u] # "absent"

\* the frames of a blob are frames of its speaker, in the order of their writes
OwnFramesInOrder(f) ==
    /\ \A j \in 1..Len(f.blob) : f.blob[j][1] = f.user
    /\ \A j \in 1..(Len(f.blob) - 1) : f.blob[j][2] < f.blob[j + 1][2]

\* C13: a speaker is flushed only when the frame that ends the blob is followed
\* by a silence of at least the threshold, and the blob holds only that
\* speaker's frames in arrival order: while A is flushed, B who keeps sending
\* (frames less than the threshold apart) is not.
C13_OnlySilentSpeakerFlushed ==
    \A i \in 1..Len(buf.flushes) :
        /\ buf.flushes[i].silent >= SilenceTicks
        /\ OwnFramesInOrder(buf.flushes[i])

\* C14: every flush that gave a blob has exactly one event record, once in the
\* session log and once in the delivery queue, as soon as the loop has handled it.
C14_OneRecordPerFlush ==
    buf.pc # "transcribe" =>
        /\ Len(buf.log) = Len(buf.flushes)
        /\ buf.output_queue = buf.log
        /\ \A i \in 1..Len(buf.log) :
              i <= Len(buf.flushes) => buf.log[i].user = buf.flushes[i].user

\* the texts that match a hallucination pattern once stripped and lowered
NoiseTexts == {"Sous-titrage FR ?", "sous-titrage fr ?"}

\* C15: the noise filter only flags: is_noise of a recorded event is true exactly
\* when the filter is enabled and its text matches a pattern, and a transcription
\* whose text matches a pattern is appended to the log and to the delivery queue.
C15_NoiseAdvisory ==
    /\ [](\A i \in 1..Len(buf.log) :
            buf.log[i].is_noise <=>
                (buf.enable_subtitle_noise_filter /\ buf.log[i].text \in NoiseTexts))
    /\ [][(/\ buf.pc = "transcribe" /\ buf'.pc # "transcribe"
           /\ buf'.last_tr.text \in NoiseTexts)
          => /\ Len(buf'.log) = Len(buf.log) + 1
             /\ Len(buf'.output_queue) = Len(buf.output_queue) + 1
             /\ buf'.log[Len(buf'.log)].text = buf'.last_tr.text
             /\ buf'.log[Len(buf'.log)].is_noise = buf.enable_subtitle_noise_filter
             /\ buf'.output_queue[Len(buf'.output_queue)] = buf'.log[Len(buf'.log)]]_vars

\* an event flagged as noise is in the log and in the delivery queue
C15_Witness ==
    \E i \in 1..Len(buf.log) :
        /\ buf.log[i].is_noise
        /\ i <= Len(buf.output_queue) /\ buf.output_queue[i] = buf.log[i]

\* C16: a transcribe_wav call on a blob shorter than the minimum returns "" and
\* does not call the backend; on a blob of the minimum duration or longer it
\* calls the backend exactly once.
C16_MinDurationGate ==
    (buf.last_tr.called /\ buf.last_tr.outcome # "bad_wav") =>
        /\ (buf.last_tr.duration < buf.min_duration =>
                buf.last_tr.text = "" /\ buf.last_tr.calls = 0)
        /\ (buf.last_tr.duration >= buf.min_duration => buf.last_tr.calls = 1)

\* a blob of exactly the minimum duration has been transcribed by the backend
C16_Witness ==
    /\ buf.last_tr.called /\ buf.last_tr.outcome = "bonjour"
    /\ buf.last_tr.duration = buf.min_duration /\ buf.min_duration > 1
    /\ buf.last_tr.calls = 1

\* C17: transcribe_wav never raises: when the backend or the reading of the
\* duration fails it returns "", and the loop goes on with the other speakers
\* of its pass.
C17_TranscribeNeverRaises ==
    /\ [](buf.last_tr.called =>
            /\ ~buf.last_tr.raised
            /\ (buf.last_tr.outcome \in {"raises", "bad_wav"} => buf.last_tr.text = ""))
    /\ [][(/\ buf.pc = "transcribe" /\ buf'.pc # "transcribe"
           /\ buf'.last_tr.outcome \in {"raises", "bad_wav"})
          => /\ buf'.pc = "scan" /\ buf'.todo = buf.todo
             /\ buf'.log = buf.log /\ buf'.output_queue = buf.output_queue]_vars

\* the backend was called and raised, and the pass goes on with a speaker left
C17_Witness ==
    /\ buf.last_tr.called /\ buf.last_tr.outcome = "raises" /\ buf.last_tr.calls = 1
    /\ buf.pc = "scan" /\ buf.todo # <<>>

\* C18: is_speaker_done is true exactly for a tracked speaker whose last audio is
\* at least the threshold old; a flush happens at a gap >= the threshold, and a
\* speaker looked at in a pass and not flushed has a smaller gap.
C18_SpeakerDoneBoundary ==
    /\ [](\A u \in Users :
            IsSpeakerDone(buf, u, SilenceTicks) <=>
                (/\ buf.speakers[u].tracked
                 /\ buf.now - buf.speakers[u].last_audio_time >= SilenceTicks))
    /\ [](\A i \in 1..Len(buf.flushes) : buf.flushes[i].gap >= SilenceTicks)
    /\ [][(buf.pc = "scan" /\ buf.todo # <<>> /\ buf'.pc = "scan" /\ buf'.todo # buf.todo)
          => buf.now - buf.speakers[Head(buf.todo)].last_audio_time < SilenceTicks]_vars

\* a speaker was flushed at a gap of exactly the threshold
C18_Witness ==
    \E i \in 1..Len(buf.flushes) : buf.flushes[i].gap = SilenceTicks

\* C19: add_audio for a user the buffer does not track (never seen, or flushed)
\* creates a state whose start_time and last_audio_time are the timestamp of
\* that frame and whose deque holds that frame only.
C19_FreshStateAfterFlush ==
    [][\A u \in Users :
         (~buf.speakers[u].tracked /\ buf'.speakers[u].tracked) =>
            /\ buf.voice_queue # <<>> /\ Head(buf.voice_queue)[1] = u
            /\ buf'.speakers[u].start_time = Head(buf.voice_queue)[3]
            /\ buf'.speakers[u].last_audio_time = Head(buf.voice_queue)[3]
            /\ buf'.buffers[u] = <<Head(buf.voice_queue)[2]>>]_vars

\* a user flushed before is tracked again, from a later frame
C19_Witness ==
    \E u \in Users :
        /\ \E i \in 1..Len(buf.flushes) : buf.flushes[i].user = u
        /\ buf.speakers[u].tracked
        /\ buf.speakers[u].start_time > 0
        /\ Len(buf.buffers[u]) = 1

\* C20: a session read back by from_dict from the record to_dict made of it has
\* the same session_id, guild_id, mode, label, players and extra, an empty
\* extra and an empty players map included, whether the record holds the
\* players as a map keyed by str(id) or as a list of entries.
C20_RoundTrip ==
    rt.pc = "back" =>
        /\ rt.back.session_id = rt.session.session_id
        /\ rt.back.guild_id = rt.session.guild_id
        /\ rt.back.mode = rt.session.mode
        /\ rt.back.label = rt.session.label
        /\ rt.back.players = rt.session.players
        /\ rt.back.extra = rt.session.extra

\* a session with every user, a first_spoke_at and an empty extra has been read
\* back from a record that holds the players as a list
C20_Witness ==
    /\ rt.pc = "back"
    /\ rt.record.players.kind = "list"
    /\ DOMAIN rt.session.players = Users
    /\ \E u \in Users : rt.session.players[u].first_spoke_at # "None"
    /\ rt.session.extra = {}

\* C21: two distinct sessions, of different guilds at any instants or of the
\* same guild created at different instants, have different session sids, and
\* so different folders and different session_meta.json paths.
C21_SessionIdsDistinct ==
    \A i, j \in 1..Len(sids.created) :
        LET a == sids.created[i]
            b == sids.created[j]
        IN (i # j /\ (a.guild_id # b.guild_id \/ a.started_at # b.started_at)) =>
              /\ a.session_id # b.session_id
              /\ a.paths.base_dir # b.paths.base_dir
              /\ a.paths.meta_path # b.paths.meta_path

\* C22: within a session no player entry is deleted and no stored field is
\* replaced by an absent value: a call of add_or_update_player keeps every
\* entry, leaves the other users' entries as they were, and when it gives only
\* player (or only character) leaves the other field of the entry as it was.
C22_PlayersOnlyGrow ==
    [][\A u \in Users :
         /\ pl.players[u].present => pl'.players[u].present
         /\ pl.players[u].player # "None" => pl'.players[u].player # "None"
         /\ pl.players[u].character # "None" => pl'.players[u].character # "None"
         /\ u # pl'.last.user_id => pl'.players[u] = pl.players[u]
         /\ (u = pl'.last.user_id /\ pl.players[u].present) =>
               /\ pl'.last.character = "None" =>
                     pl'.players[u].character = pl.players[u].character
               /\ pl'.last.player = "None" =>
                     pl'.players[u].player = pl.players[u].player]_vars

\* the latest call gave only a character for a user whose player was stored,
\* and the session holds every user
C22_Witness ==
    /\ pl.last.user_id # 0
    /\ pl.last.player = "None" /\ pl.last.character # "None"
    /\ pl.players[pl.last.user_id].player # "None"
    /\ \A u \in Users : pl.players[u].present

\* C23: on every stop path the finalize of a session (ended_at set and written
\* to session_meta.json) is complete when the cleanup of that session's sink
\* closes the archiver, and the session leaves current_session_by_guild only
\* when its sink has been closed.
C23_FinalizeBeforeClose ==
    [][\A k \in SessionIds :
         /\ bot'.cleanups[k] > bot.cleanups[k] =>
               /\ bot'.ended_at[k] # None
               /\ bot'.meta_file[k].ended_at # None
         /\ (/\ guild_of[k] # 0
             /\ bot.current_session_by_guild[guild_of[k]] = k
             /\ bot'.current_session_by_guild[guild_of[k]] # k) =>
               bot'.cleanups[k] >= 1]_vars

\* the timer tasks of guild g that are still asleep
PendingTimers(b, g) == {s \in SessionIds : guild_of[s] = g /\ b.task[s] # "none"}

\* C24: every cleanup path of a guild's session has cancelled the guild's timer
\* when it finalizes the metadata or closes the sink: after a step that
\* finalizes session k or cleans its sink no timer task of that guild is
\* pending; and cancelling when the guild has no timer, or one that is over,
\* changes no task.
C24_TimerCancelledBeforeCleanup ==
    /\ [][\A k \in SessionIds :
            (\/ bot'.finalized[k] > bot.finalized[k]
             \/ bot'.cleanups[k] > bot.cleanups[k])
            => PendingTimers(bot', guild_of[k]) = {}]_vars
    /\ [](\A g \in Guilds :
            (\/ bot.session_timers[g] = 0
             \/ bot.task[bot.session_timers[g]] = "none")
            => CancelSessionTimer(bot, g).task = bot.task)

\* C25: under every interleaving of the stop paths of a guild (stop callback,
\* direct fallback, timer, voice disconnect, shutdown) the cleanup of a sink,
\* and with it the close of its archiver, runs at most once.
C25_CleanupAtMostOnce ==
    \A k \in SessionIds : bot.cleanups[k] <= 1

\* session_meta.json of session k holds the finalized record and the extras
MetaComplete(b, k) ==
    b.meta_file[k].exists /\ b.meta_file[k].ended_at # None /\ b.meta_file[k].extra

\* C26: the extras merge of the sink keeps what finalize wrote and nothing
\* written after it removes the extras: no step takes ended_at or the extras
\* out of a session_meta.json, and when the stop of session k has run to its
\* end (through the callback or through the direct path) the file holds both.
C26_MetaKeepsBoth ==
    [][\A k \in SessionIds :
         /\ bot.meta_file[k].ended_at # None => bot'.meta_file[k].ended_at # None
         /\ bot.meta_file[k].extra => bot'.meta_file[k].extra
         /\ (\/ bot.cb[k] = "pop" /\ bot'.cb[k] = "none"
             \/ /\ guild_of[k] # 0
                /\ bot.current_sink_by_guild[guild_of[k]] = k
                /\ bot'.current_sink_by_guild[guild_of[k]] = 0
                /\ bot'.cleanups[k] > bot.cleanups[k]
                /\ sh_pc' = sh_pc)
            => MetaComplete(bot', k)]_vars

\* C27: an append and a close never execute at the same time on one archiver:
\* the thread is never inside audio_archiver.append while cleanup() is inside
\* audio_archiver.close().
C27_ArchiverExclusive ==
    ~(sk.thread = "writeframes" /\ sk.cleanup = "close")

\* C28: a flush of a speaker never separates two of the speaker's frames whose
\* write() timestamps are less than the threshold apart: when a speaker is
\* flushed, every frame of that speaker waiting in voice_queue was stamped at
\* least the threshold after the last frame of the blob (a frame written later
\* is stamped after the flush).
C28_NoFlushInsideUtterance ==
    [][\A u \in Users :
         (buf.speakers[u].tracked /\ ~buf'.speakers[u].tracked) =>
            \A n \in 1..Len(buf.voice_queue) :
                buf.voice_queue[n][1] = u =>
                    buf.voice_queue[n][3] - buf.speakers[u].last_audio_time
                        >= SilenceTicks]_vars

\* C29: the polling of the silence timeouts is not starved: a tracked speaker
\* whose last frame in the buffer is at least the threshold old is eventually
\* flushed by the running loop, unless a further frame of that speaker reaches
\* the buffer first; frames of the other speakers and an empty queue do not
\* prevent it: every get, with a frame or timed out, is followed by a pass over
\* all the tracked speakers.
C29_SilentSpeakerFlushed ==
    /\ \A u \in Users : \A t \in 0..MaxTicks :
          (/\ buf.speakers[u].tracked
           /\ buf.speakers[u].last_audio_time = t
           /\ buf.now - t >= SilenceTicks)
          ~> ~(buf.speakers[u].tracked /\ buf.speakers[u].last_audio_time = t)
    /\ [][(buf.pc = "get" /\ buf'.pc # "get")
           => (buf'.pc = "scan" /\ buf'.todo = buf'.keys)]_vars

\* a speaker has just been flushed while frames of another speaker, sent
\* after the flushed speaker's last frame, wait in the queue
C29_Witness ==
    /\ buf.pc = "transcribe"
    /\ \E n \in 1..Len(buf.voice_queue) :
          /\ buf.voice_queue[n][1] # buf.cur[1].user
          /\ buf.voice_queue[n][3] > buf.cur[1].end

\* C30: cleanup() of a sink always reaches the closing of the archiver: no error
\* of a step leaves cleanup(), whether met while the extras are merged, while the
\* thread is stopped and joined, or while the archiver is closed; and once
\* cleanup() is past these steps, a sink that has an archiver has called its
\* close().
C30_CleanupReachesClose ==
    /\ cu.pc # "raised"
    /\ (cu.pc = "super" /\ cu.archiver) => cu.close_called

\* a cleanup() of the record-only sink about to return: merging the extras
\* raised, a handle failed to close, and close() was called
C30_Witness ==
    /\ cu.pc = "super"
    /\ cu.close_called
    /\ <<"extras", "other">> \in cu.errors
    /\ <<"close", "handle">> \in cu.errors

\* C31: a failure while one frame or one utterance is processed never ends the
\* monitor loop: the thread leaves the loop only when the while test finds
\* running False, and while the sink is running a frame that waits in the queue
\* after a failure is taken from it.
C31_LoopSurvivesFailure ==
    /\ [](sk.thread # "dead" /\ (sk.thread = "exit" => ~sk.running))
    /\ \A n \in 1..MaxFrames :
          (sk.errors > 0 /\ Len(sk.voice_queue) = n)
          ~> (~sk.running \/ Len(sk.voice_queue) < n)

\* after an exception reached the handler of the loop, the thread of a running
\* sink has taken a later frame from the queue
C31_Witness ==
    /\ sk.errors > 0
    /\ sk.running
    /\ sk.thread = "archive"

\* C32: once cleanup() has been called the monitor loop ends, and once it has
\* ended no iteration starts again; cleanup() itself returns after its bounded
\* join whether the loop has ended or not.
C32_LoopStopsAfterCleanup ==
    /\ (sk.cleanup # "none") ~> (sk.thread = "exit")
    /\ [][sk.thread = "exit" => sk'.thread = "exit"]_vars
    /\ (sk.cleanup = "join") ~> (sk.cleanup = "done")

\* cleanup() has returned while the thread is still inside an iteration
C32_Witness ==
    /\ sk.cleanup = "done"
    /\ sk.thread \in {"get", "archive", "writeframes", "speakers"}

\* what the bot holds for guild h: its VoiceClient, sink, session, timer and
\* recording, and the state of each session created for h (go: session -> guild)
GuildView(b, c, go, h) ==
    [conn      |-> c[h],
     sink      |-> b.current_sink_by_guild[h],
     session   |-> b.current_session_by_guild[h],
     timer     |-> b.session_timers[h],
     recording |-> b.recording[h],
     sessions  |-> [s \in {x \in SessionIds : go[x] = h} |->
                      <<b.task[s], b.ended_at[s], b.finalized[s], b.meta_file[s],
                        b.cleanups[s], b.cb[s]>>]]

\* a step of /record, /stop, the stop callback, the timer task or the voice
\* disconnect of guild g, whatever its outcome
OperationOfGuild(g) ==
    \/ StartSession(g)
    \/ StopSession(g)
    \/ VoiceDisconnect(g)
    \/ \E s \in SessionIds :
          /\ guild_of[s] = g
          /\ \/ CbBegin(s) \/ CbFinalize(s) \/ CbCleanup(s) \/ CbPop(s)
             \/ \E chan \in ChannelOutcomes : TimerWarn(s, chan)
             \/ \E chan \in ChannelOutcomes : TimerStop(s, chan)

\* C33: guild isolation: a start, a stop, a timer expiry or a voice disconnect
\* of guild g, failed or not, leaves the session, sink, timer, recording and
\* ended_at of every other guild as they were.
C33_GuildIsolation ==
    [][\A g \in Guilds :
          OperationOfGuild(g) =>
             \A h \in Guilds \ {g} :
                GuildView(bot, conn, guild_of', h) = GuildView(bot', conn', guild_of', h)]_vars

\* the session of one guild has ended while another guild is being recorded
C33_Witness ==
    \E s1, s2 \in SessionIds :
        /\ guild_of[s1] # 0 /\ guild_of[s2] # 0 /\ guild_of[s1] # guild_of[s2]
        /\ bot.ended_at[s1] # None
        /\ bot.cleanups[s1] > 0
        /\ bot.current_sink_by_guild[guild_of[s2]] = s2
        /\ bot.ended_at[s2] = None

\* what a sink holds besides the record of the calls made to it
WrState(w) ==
    <<w.start_ts, w.user_first_offset_seconds, w.files, w.archived,
      w.voice_queue, w.speakers, w.extras>>

\* C34: an empty frame passed to write() is dropped at once and changes no
\* state: nothing is enqueued, no file is opened or written, no speaker is
\* created or refreshed, and neither start_ts nor an offset is set.
C34_EmptyFrameDropped ==
    [][(wr'.writes = wr.writes + 1 /\ wr'.last.empty)
          => WrState(wr') = WrState(wr)]_vars

\* C40: the first-packet timing of the record-only sink is recorded once:
\* start_ts is set by the first non-empty frame, to the time of that frame, and
\* never changes; the offset of a speaker is set by that speaker's first
\* non-empty frame, is at least 0 and is 0 for the speaker of the very first
\* frame, and never changes; cleanup() merges these very values into the extras.
C40_FirstPacketTimingOnce ==
    /\ [](wr.gen = "new" =>
            /\ (wr.start_ts # None) <=> (wr.heard # {})
            /\ \A u \in Users :
                  /\ (wr.user_first_offset_seconds[u] # None) <=> (u \in wr.heard)
                  /\ wr.user_first_offset_seconds[u] # None
                        => wr.user_first_offset_seconds[u] >= 0
            /\ wr.first # 0 => wr.user_first_offset_seconds[wr.first] = 0)
    /\ [][wr.gen = "new" =>
            /\ wr.start_ts # None => wr'.start_ts = wr.start_ts
            /\ (wr.start_ts = None /\ wr'.start_ts # None) => wr'.start_ts = wr.now
            /\ \A u \in Users :
                  wr.user_first_offset_seconds[u] # None
                     => wr'.user_first_offset_seconds[u] = wr.user_first_offset_seconds[u]
            /\ wr'.extras # wr.extras => wr'.extras = ExtrasOf(wr)]_vars

\* the extras were merged with a start time and, for a speaker who came in
\* later, an offset above 0
C40_Witness ==
    /\ wr.gen = "new"
    /\ wr.extras.merged
    /\ wr.extras.audio_start_ts # None
    /\ \E u \in Users : wr.extras.user_first_offset_seconds[u] > 0
    /\ wr.extras.user_first_offset_seconds[wr.first] = 0

\* the pass of the monitor loop is at speaker u, whose silence has reached the
\* threshold: the next step of the thread is flush_speaker(u)
FlushDue(u) ==
    /\ buf.pc = "scan"
    /\ buf.todo # <<>>
    /\ Head(buf.todo) = u
    /\ IsSpeakerDone(buf, u, SilenceTicks)

\* C35: a speaker's state exists from its first accepted frame until its flush:
\* add_audio(s) leaves s tracked, only flush_speaker(s) ends the tracking of s,
\* whatever is done for other speakers, and flush_speaker(s) always ends it.
C35_TrackedUntilFlush ==
    [][\A u \in Users :
          /\ (buf.speakers[u].tracked /\ ~buf'.speakers[u].tracked) => FlushDue(u)
          /\ (FlushDue(u) /\ buf'.pc = "transcribe") => ~buf'.speakers[u].tracked
          /\ (buf.pc = "get" /\ buf'.pc = "scan" /\ buf.voice_queue # <<>>
                /\ Head(buf.voice_queue)[1] = u) => buf'.speakers[u].tracked]_vars

\* a speaker has just been flushed while another one stays tracked
C35_Witness ==
    /\ buf.pc = "transcribe"
    /\ ~buf.speakers[buf.cur[1].user].tracked
    /\ \E v \in Users : buf.speakers[v].tracked

\* C36: the monitor thread never mutates a structure of the event loop itself:
\* no event is put on the asyncio queue by the thread, each is handed to the
\* loop through a thread-safe bridge.
C36_QueueThroughBridge ==
    buf.put_by # "thread"

\* C37: sink and session stay paired: a guild that has a registered sink has a
\* registered session, the one the sink was created for.
C37_SinkSessionPaired ==
    \A g \in Guilds :
        bot.current_sink_by_guild[g] # 0
            => bot.current_session_by_guild[g] = bot.current_sink_by_guild[g]

\* C38: a session that is being recorded has ended_at unset: as long as
\* PiaPiaBot.close() has not been called, no finalize that belongs to the stop
\* of another session sets ended_at on the session a guild's VoiceClient is
\* recording.
C38_RecordedSessionNotEnded ==
    \A g \in Guilds :
        (sh_pc = "run" /\ bot.recording[g] # 0)
            => bot.ended_at[bot.recording[g]] = None

\* C39: once the archiver of a session has been closed, a late write() on the
\* sink does not alter the archived audio: no speaker file that was written and
\* closed is emptied or replaced.
C39_LateWriteKeepsArchive ==
    rec.truncated = {}

====
